---- MODULE Spec2Model ----
(***************************************************************************)
(* State-machine model of the aloig logging adapter: the correlation       *)
(* context store (WithTraceID .. ExtractContextFields), the logrus-backed  *)
(* Logger implementation with its formatter, the singleton behind          *)
(* GetLogger / ConfigureLogger and its replacement by assignment,          *)
(* GetLogLevelFromEnv, error reporting (the Sentry hook, FlushSentry and   *)
(* logrus' exit handlers), and the trace middleware of the example server. *)
(*                                                                         *)
(* Go strings are modelled as sequences of characters, so "" is <<>>.      *)
(* A context.Context is a handle into the heap `ctxs`: 0 is the nil        *)
(* interface value, 1 is context.Background(), every later cell is a       *)
(* valueCtx {parent, key, val} allocated by context.WithValue.             *)
(***************************************************************************)
EXTENDS Integers, Sequences, FiniteSets, TLC

VARIABLES
    ctxs,       \* heap of context.Context values
    instances,  \* heap of *logrus.Logger values
    loggers,    \* heap of *logrusLogger values {logger, ctx}
    derived,    \* history: the With* call that created each logrusLogger
    emitted,    \* the records written to the output by the last call
    ret,        \* the last call: its arguments and what it returned
    environ,    \* the environment variables of the process
    log,        \* the package variable `log`: 0 (nil) or a logrusLogger
    once,       \* the package variable `once`: {done, m}
    goroutines, \* the goroutines calling into the package: where each stands
    proc,       \* the process: running, unwinding a panic, or exited
    reporting   \* error reporting: the Sentry client, the events the hooks
                \* captured, the flushes, and logrus' exit handlers

vars == <<ctxs, instances, loggers, derived, emitted, ret,
          environ, log, once, goroutines, proc, reporting>>

logVars == <<instances, loggers, derived, emitted>>

pkgVars == <<environ, log, once, goroutines, proc>>

-----------------------------------------------------------------------------
(* Bounds *)

\* number of valueCtx cells the context-store specification may allocate
MaxCtx == 2

\* number of logrusLogger values: the one NewLogger built and the derived ones
MaxLoggers == 3

-----------------------------------------------------------------------------
(* Strings and maps *)

EmptyString == <<>>

\* map[string]interface{} as a function over its key set
EmptyMap == [k \in {} |-> EmptyString]

MapPut(m, k, v) == [x \in (DOMAIN m) \cup {k} |-> IF x = k THEN v ELSE m[x]]

\* strings.ReplaceAll(s, old, "") for a one-character old
RECURSIVE ReplaceAll(_, _)
ReplaceAll(s, old) ==
    IF s = <<>> THEN <<>>
    ELSE IF Head(s) = old THEN ReplaceAll(Tail(s), old)
         ELSE <<Head(s)>> \o ReplaceAll(Tail(s), old)

Rep(c, n) == [i \in 1..n |-> c]

\* uuid.UUID.String(): xxxxxxxx-xxxx-xxxx-xxxx-xxxxxxxxxxxx
UuidString(c) ==
    Rep(c, 8) \o <<"-">> \o Rep(c, 4) \o <<"-">> \o Rep(c, 4) \o <<"-">>
              \o Rep(c, 4) \o <<"-">> \o Rep(c, 12)

\* the values uuid.New().String() may produce in one run
UUIDs == {UuidString("7"), UuidString("e")}

\* the identifier strings callers pass to With<K>ID
IDStrings == {EmptyString, <<"a">>}

-----------------------------------------------------------------------------
(* fmt, for string operands *)

\* strings.Join(parts, sep)
RECURSIVE Join(_, _)
Join(parts, sep) ==
    IF parts = <<>> THEN <<>>
    ELSE IF Len(parts) = 1 THEN parts[1]
         ELSE parts[1] \o sep \o Join(Tail(parts), sep)

\* fmt.Sprint: string operands are written one after the other
Sprint(args) == Join(args, <<>>)

\* fmt.Sprintln without the final newline: operands separated by spaces
Sprintlnn(args) == Join(args, <<" ">>)

\* what Sprintf appends for operands no verb consumed
RECURSIVE ExtraArgs(_)
ExtraArgs(args) ==
    IF Len(args) = 1 THEN <<"s", "t", "r", "i", "n", "g", "=">> \o args[1]
    ELSE <<"s", "t", "r", "i", "n", "g", "=">> \o args[1] \o <<",", " ">> \o ExtraArgs(Tail(args))

\* fmt.Sprintf for the verbs %s and %v, with the error texts of fmt for a
\* missing operand, a wrong verb, a lone % and left-over operands
RECURSIVE Sprintf(_, _)
Sprintf(format, args) ==
    IF format = <<>>
    THEN IF args = <<>> THEN <<>>
         ELSE <<"%", "!", "(", "E", "X", "T", "R", "A", " ">> \o ExtraArgs(args) \o <<")">>
    ELSE IF Head(format) # "%"
         THEN <<Head(format)>> \o Sprintf(Tail(format), args)
         ELSE IF Len(format) = 1 THEN <<"%", "!", "(", "N", "O", "V", "E", "R", "B", ")">> \o Sprintf(<<>>, args)
              ELSE LET verb == format[2]
                       rest == Tail(Tail(format))
                   IN IF verb = "%" THEN <<"%">> \o Sprintf(rest, args)
                      ELSE IF args = <<>>
                           THEN <<"%", "!", verb>> \o <<"(", "M", "I", "S", "S", "I", "N", "G", ")">> \o Sprintf(rest, args)
                           ELSE IF verb \in {"s", "v"}
                                THEN Head(args) \o Sprintf(rest, Tail(args))
                                ELSE <<"%", "!", verb, "(">> \o <<"s", "t", "r", "i", "n", "g", "=">> \o Head(args)
                                         \o <<")">> \o Sprintf(rest, Tail(args))

-----------------------------------------------------------------------------
(* Correlation context store *)

TraceIDKey == "trace_id"
RequestIDKey == "request_id"
UserIDKey == "user_id"
SessionIDKey == "session_id"

ContextKeys == {TraceIDKey, RequestIDKey, UserIDKey, SessionIDKey}

NilCtx == 0
Background == 1

BackgroundCtx == [kind |-> "background"]

NoPanic == "none"

\* interface{} values stored in a context
StringVal(s) == [type |-> "string", s |-> s]
NilVal == [type |-> "nil"]

\* a lookup that prefers the oldest binding of key on the chain
RECURSIVE ValueOutermost(_, _, _)
ValueOutermost(heap, ctx, key) ==
    IF heap[ctx].kind = "background" THEN NilVal
    ELSE LET up == ValueOutermost(heap, heap[ctx].parent, key)
         IN IF up.type # "nil" THEN up
            ELSE IF heap[ctx].key = key THEN heap[ctx].val ELSE NilVal

\* a lookup that passes over the bindings that are not strings
RECURSIVE ValueSkipsForeign(_, _, _)
ValueSkipsForeign(heap, ctx, key) ==
    IF heap[ctx].kind = "background" THEN NilVal
    ELSE IF heap[ctx].key = key /\ heap[ctx].val.type = "string" THEN heap[ctx].val
         ELSE ValueSkipsForeign(heap, heap[ctx].parent, key)

\* (*valueCtx).Value: the innermost binding of key on the chain, nil if none
RECURSIVE Value(_, _, _)
Value(heap, ctx, key) ==
    IF heap[ctx].kind = "background" THEN NilVal
    ELSE IF heap[ctx].key = key THEN heap[ctx].val
         ELSE Value(heap, heap[ctx].parent, key)

\* a WithValue that forgets the chain of its parent
ContextWithValueNoChain(heap, parent, key, val) ==
    IF parent = NilCtx
    THEN [heap |-> heap, ctx |-> NilCtx,
          panic |-> "cannot create context from nil parent"]
    ELSE [heap |-> Append(heap, [kind |-> "value", parent |-> Background,
                                 key |-> key, val |-> val]),
          ctx |-> Len(heap) + 1, panic |-> NoPanic]

\* a WithValue that rebinds in place when its parent binds the same key
ContextWithValueInPlace(heap, parent, key, val) ==
    IF parent = NilCtx
    THEN [heap |-> heap, ctx |-> NilCtx,
          panic |-> "cannot create context from nil parent"]
    ELSE IF heap[parent].kind = "value" /\ heap[parent].key = key
         THEN [heap |-> [heap EXCEPT ![parent].val = val],
               ctx |-> parent, panic |-> NoPanic]
         ELSE [heap |-> Append(heap, [kind |-> "value", parent |-> parent,
                                      key |-> key, val |-> val]),
               ctx |-> Len(heap) + 1, panic |-> NoPanic]

\* context.WithValue: panics on a nil parent, else allocates a valueCtx
ContextWithValue(heap, parent, key, val) ==
    IF parent = NilCtx
    THEN [heap |-> heap, ctx |-> NilCtx,
          panic |-> "cannot create context from nil parent"]
    ELSE [heap |-> Append(heap, [kind |-> "value", parent |-> parent,
                                 key |-> key, val |-> val]),
          ctx |-> Len(heap) + 1, panic |-> NoPanic]

\* v, ok := ctx.Value(key).(string); if !ok || v == "" { return "" }; return v
GetID(heap, ctx, key) ==
    IF ctx = NilCtx THEN EmptyString
    ELSE LET v == Value(heap, ctx, key)
             ok == v.type = "string"
         IN IF ~ok \/ v.s = EmptyString THEN EmptyString ELSE v.s

WithTraceID(heap, ctx, traceID) ==
    ContextWithValue(heap, ctx, TraceIDKey, StringVal(traceID))

GetTraceID(heap, ctx) == GetID(heap, ctx, TraceIDKey)

GenerateTraceID(uuid) == ReplaceAll(uuid, "-")

\* an EnsureTraceID that generates and binds even when an id is present
EnsureTraceIDAlwaysNew(heap, ctx, uuid) ==
    LET c == IF ctx = NilCtx THEN Background ELSE ctx
        g == GenerateTraceID(uuid)
        w == WithTraceID(heap, c, g)
    IN [heap |-> w.heap, ctx |-> w.ctx, traceID |-> g]

\* an EnsureTraceID that returns the generated id without binding it
EnsureTraceIDNoBind(heap, ctx, uuid) ==
    LET c == IF ctx = NilCtx THEN Background ELSE ctx
        traceID == GetTraceID(heap, c)
    IN IF traceID = EmptyString
       THEN [heap |-> heap, ctx |-> c, traceID |-> GenerateTraceID(uuid)]
       ELSE [heap |-> heap, ctx |-> c, traceID |-> traceID]

EnsureTraceID(heap, ctx, uuid) ==
    LET c == IF ctx = NilCtx THEN Background ELSE ctx
        traceID == GetTraceID(heap, c)
    IN IF traceID = EmptyString
       THEN LET g == GenerateTraceID(uuid)
                w == WithTraceID(heap, c, g)
            IN [heap |-> w.heap, ctx |-> w.ctx, traceID |-> g]
       ELSE [heap |-> heap, ctx |-> c, traceID |-> traceID]

WithRequestID(heap, ctx, requestID) ==
    ContextWithValue(heap, ctx, RequestIDKey, StringVal(requestID))

\* a GetRequestID that looks up the trace key
GetRequestIDWrongKey(heap, ctx) == GetID(heap, ctx, TraceIDKey)

GetRequestID(heap, ctx) == GetID(heap, ctx, RequestIDKey)

WithUserID(heap, ctx, userID) ==
    ContextWithValue(heap, ctx, UserIDKey, StringVal(userID))

GetUserID(heap, ctx) == GetID(heap, ctx, UserIDKey)

WithSessionID(heap, ctx, sessionID) ==
    ContextWithValue(heap, ctx, SessionIDKey, StringVal(sessionID))

GetSessionID(heap, ctx) == GetID(heap, ctx, SessionIDKey)

\* an extraction that keeps identifiers bound to ""
ExtractContextFieldsKeepEmpty(heap, ctx) ==
    [k \in {x \in ContextKeys : ctx # NilCtx /\ Value(heap, ctx, x).type = "string"} |->
        Value(heap, ctx, k)]

ExtractContextFields(heap, ctx) ==
    LET f0 == EmptyMap
        traceID == GetTraceID(heap, ctx)
        f1 == IF traceID # EmptyString
              THEN MapPut(f0, "trace_id", StringVal(traceID)) ELSE f0
        requestID == GetRequestID(heap, ctx)
        f2 == IF requestID # EmptyString
              THEN MapPut(f1, "request_id", StringVal(requestID)) ELSE f1
        userID == GetUserID(heap, ctx)
        f3 == IF userID # EmptyString
              THEN MapPut(f2, "user_id", StringVal(userID)) ELSE f2
        sessionID == GetSessionID(heap, ctx)
        f4 == IF sessionID # EmptyString
              THEN MapPut(f3, "session_id", StringVal(sessionID)) ELSE f3
    IN f4

\* dispatch on the key to the exported accessor of that key
WithID(heap, ctx, key, v) ==
    CASE key = TraceIDKey -> WithTraceID(heap, ctx, v)
      [] key = RequestIDKey -> WithRequestID(heap, ctx, v)
      [] key = UserIDKey -> WithUserID(heap, ctx, v)
      [] key = SessionIDKey -> WithSessionID(heap, ctx, v)

ReadID(heap, ctx, key) ==
    CASE key = TraceIDKey -> GetTraceID(heap, ctx)
      [] key = RequestIDKey -> GetRequestID(heap, ctx)
      [] key = UserIDKey -> GetUserID(heap, ctx)
      [] key = SessionIDKey -> GetSessionID(heap, ctx)

-----------------------------------------------------------------------------
(* The package state before anything has used the singleton *)

NilLogger == 0

\* sync.Once{}: not done, mutex free
NewOnce == [done |-> FALSE, m |-> 0]

Running == [status |-> "running", fault |-> <<>>, code |-> 0]

\* sentry.CurrentHub() without a client, no hook, no exit handler
NoReporting == [client |-> FALSE, handlers |-> <<>>, events |-> <<>>, flushes |-> <<>>]

\* var ( log Logger; once sync.Once ) in a process with an empty environment
\* and no goroutine inside the package
InitPkg ==
    /\ environ = EmptyMap
    /\ log = NilLogger
    /\ once = NewOnce
    /\ goroutines = <<>>
    /\ proc = Running
    /\ reporting = NoReporting

-----------------------------------------------------------------------------
(* Calls into the context store *)

Handles == 0..Len(ctxs)

NoCall == [op |-> "none"]

CallWithID(limit) ==
    \E key \in ContextKeys, h \in Handles, v \in IDStrings :
        LET r == WithID(ctxs, h, key, v)
        IN /\ Len(r.heap) <= 1 + limit
           /\ ctxs' = r.heap
           /\ ret' = [op |-> "WithID", key |-> key, ctx |-> h, arg |-> v,
                      out |-> r.ctx, allocated |-> Len(r.heap) - Len(ctxs),
                      panic |-> r.panic]
           /\ UNCHANGED <<logVars, pkgVars, reporting>>

CallGetID ==
    \E key \in ContextKeys, h \in Handles :
        /\ ret' = [op |-> "GetID", key |-> key, ctx |-> h,
                   out |-> ReadID(ctxs, h, key), panic |-> NoPanic]
        /\ UNCHANGED <<ctxs, logVars, pkgVars, reporting>>

CallEnsureTraceID(limit) ==
    \E h \in Handles, uuid \in UUIDs :
        LET r == EnsureTraceID(ctxs, h, uuid)
        IN /\ Len(r.heap) <= 1 + limit
           /\ ctxs' = r.heap
           /\ ret' = [op |-> "EnsureTraceID", ctx |-> h, out |-> r.ctx,
                      traceID |-> r.traceID,
                      allocated |-> Len(r.heap) - Len(ctxs), panic |-> NoPanic]
           /\ UNCHANGED <<logVars, pkgVars, reporting>>

CallExtractContextFields ==
    \E h \in Handles :
        /\ ret' = [op |-> "ExtractContextFields", ctx |-> h,
                   out |-> ExtractContextFields(ctxs, h), panic |-> NoPanic]
        /\ UNCHANGED <<ctxs, logVars, pkgVars, reporting>>

InitCtx ==
    /\ ctxs = <<BackgroundCtx>>
    /\ instances = <<>>
    /\ loggers = <<>>
    /\ derived = <<>>
    /\ emitted = <<>>
    /\ ret = NoCall
    /\ InitPkg

NextCtx ==
    \/ CallWithID(MaxCtx)
    \/ CallGetID
    \/ CallEnsureTraceID(MaxCtx)
    \/ CallExtractContextFields

SpecCtx == InitCtx /\ [][NextCtx]_vars

\* values of other types a caller can bind to the exported keys:
\* context.WithValue(ctx, aloig.TraceIDKey, 42)
ForeignValues == {[type |-> "int", n |-> 42]}

\* context.WithValue(h, key, value) called directly with one of the exported
\* keys
CallWithValue ==
    \E key \in ContextKeys, h \in Handles \ {NilCtx}, v \in ForeignValues :
        LET r == ContextWithValue(ctxs, h, key, v)
        IN /\ Len(r.heap) <= 1 + MaxCtx
           /\ ctxs' = r.heap
           /\ ret' = [op |-> "WithValue", key |-> key, ctx |-> h, arg |-> v,
                      out |-> r.ctx, allocated |-> Len(r.heap) - Len(ctxs),
                      panic |-> r.panic]
           /\ UNCHANGED <<logVars, pkgVars, reporting>>

NextForeign ==
    \/ CallWithID(MaxCtx)
    \/ CallWithValue
    \/ CallGetID
    \/ CallExtractContextFields

SpecForeign == InitCtx /\ [][NextForeign]_vars

-----------------------------------------------------------------------------
(* Chained binds: ctx = WithTraceID(ctx, ..); ctx = WithRequestID(ctx, ..);  *)
(* ctx = WithUserID(ctx, ..); ctx = WithSessionID(ctx, ..), in any order     *)

\* the orders in which the four keys can be bound, each once
BindOrders ==
    {p \in [1..4 -> ContextKeys] : \A i, j \in 1..4 : p[i] = p[j] => i = j}

\* the handles a chain starts from: context.Background(), and a handle that
\* already binds a user id
BaseHeaps ==
    {<<BackgroundCtx>>, WithUserID(<<BackgroundCtx>>, Background, <<"u">>).heap}

\* the binds of order p from position n on, applied to handle ctx
RECURSIVE BindAll(_, _, _, _, _)
BindAll(heap, ctx, p, vals, n) ==
    IF n > Len(p) THEN [heap |-> heap, ctx |-> ctx]
    ELSE LET r == WithID(heap, ctx, p[n], vals[p[n]])
         IN BindAll(r.heap, r.ctx, p, vals, n + 1)

\* the order TestContextChaining binds in
TestOrder == <<TraceIDKey, RequestIDKey, UserIDKey, SessionIDKey>>

InitChain ==
    \E heap \in BaseHeaps, p \in BindOrders, vals \in [ContextKeys -> IDStrings] :
        /\ ctxs = heap
        /\ instances = <<>>
        /\ loggers = <<>>
        /\ derived = <<>>
        /\ emitted = <<>>
        /\ InitPkg
        /\ ret = [op |-> "Chain", base |-> Len(heap), order |-> p, vals |-> vals,
                  ctx |-> Len(heap), bound |-> 0, panic |-> NoPanic]

\* ctx = With<K>ID(ctx, v) for the next key of the order
ChainBind ==
    /\ ret.op = "Chain"
    /\ ret.bound < 4
    /\ LET key == ret.order[ret.bound + 1]
           r == WithID(ctxs, ret.ctx, key, ret.vals[key])
       IN /\ ctxs' = r.heap
          /\ ret' = [ret EXCEPT !.ctx = r.ctx, !.bound = @ + 1, !.panic = r.panic]
    /\ UNCHANGED <<logVars, pkgVars, reporting>>

\* fields := ExtractContextFields(ctx) on the end of the chain
ChainExtract ==
    /\ ret.op = "Chain"
    /\ ret.bound = 4
    /\ ret' = [op |-> "ChainExtract", base |-> ret.base, order |-> ret.order,
               vals |-> ret.vals, ctx |-> ret.ctx,
               out |-> ExtractContextFields(ctxs, ret.ctx), panic |-> NoPanic]
    /\ UNCHANGED <<ctxs, logVars, pkgVars, reporting>>

NextChain == ChainBind \/ ChainExtract

SpecChain == InitChain /\ [][NextChain]_vars

-----------------------------------------------------------------------------
(* logrus, as far as the adapter uses it *)

\* logrus.Level: the smaller the number, the more severe
PanicLevel == 0
FatalLevel == 1
ErrorLevel == 2
WarnLevel == 3
InfoLevel == 4
DebugLevel == 5
TraceLevel == 6

\* logrus.ErrorKey
ErrorKey == "error"

ErrorVal(msg) == [type |-> "error", s |-> msg]

\* for key, value := range src { dst[key] = value }
MapMerge(dst, src) ==
    [k \in (DOMAIN dst) \cup (DOMAIN src) |-> IF k \in DOMAIN src THEN src[k] ELSE dst[k]]

\* hooks that leave the entry as it is
FireHooksNone(hooks, data) == data

\* (*FieldsHook).Fire, applied for every hook of the instance in order
RECURSIVE FireHooks(_, _)
FireHooks(hooks, data) ==
    IF hooks = <<>> THEN data
    ELSE FireHooks(Tail(hooks),
                   IF Head(hooks).kind = "fields"
                   THEN MapMerge(data, Head(hooks).Fields) ELSE data)

\* (*logrus.Logger).WithFields: a new Entry {Logger, Data}; the instance is
\* not changed
LogrusWithFields(inst, fields) == [Logger |-> inst, Data |-> fields]

LogrusWithField(inst, key, value) ==
    LogrusWithFields(inst, MapPut(EmptyMap, key, value))

LogrusWithError(inst, err) == LogrusWithField(inst, ErrorKey, err)

IntVal(n) == [type |-> "int", n |-> n]

\* the part of s after the last sep, s itself if there is none
LastPart(s, sep) ==
    LET at == {i \in DOMAIN s : s[i] = sep}
    IN IF at = {} THEN s
       ELSE SubSeq(s, (CHOOSE i \in at : \A j \in at : j <= i) + 1, Len(s))

\* filepath.Base of a path that does not end in a separator
Base(path) == IF path = <<>> THEN <<".">> ELSE LastPart(path, "/")

\* parts := strings.Split(fullName, "."); return parts[len(parts)-1]
getFunctionName(fullName) == LastPart(fullName, ".")

\* %d of a non-negative int
RECURSIVE Itoa(_)
Itoa(n) ==
    LET digit == <<"0", "1", "2", "3", "4", "5", "6", "7", "8", "9">>[(n % 10) + 1]
    IN IF n < 10 THEN <<digit>> ELSE Itoa(n \div 10) \o <<digit>>

\* entry.Caller of a call from main.run, when the instance reports callers
Caller ==
    [File |-> <<"/", "a", "p", "p", "/", "m", "a", "i", "n", ".", "g", "o">>,
     Line |-> 42,
     Function |-> <<"m", "a", "i", "n", ".", "r", "u", "n">>]

\* runtime.Stack at the point Format runs, line by line; a line is a
\* sequence of pieces, " " being leading white space
RuntimeStack ==
    << <<"goroutine 1 [running]:">>,
       <<"aloig.(*CallerJSONFormatter).Format", "(...)">>,
       <<" ", "/src/aloig/aloig.go:154">>,
       <<"github.com/sirupsen/logrus", ".(*Entry).write(...)">>,
       <<" ", "/go/pkg/mod/", "github.com/sirupsen/logrus", "@v1.9.3/entry.go:279">>,
       <<"main.run(...)">>,
       <<" ", "/app/main.go:42">>,
       <<>> >>

\* strings.TrimSpace
RECURSIVE TrimSpace(_)
TrimSpace(line) ==
    IF line = <<>> THEN line
    ELSE IF Head(line) = " " THEN TrimSpace(Tail(line))
         ELSE IF line[Len(line)] = " " THEN TrimSpace(SubSeq(line, 1, Len(line) - 1))
              ELSE line

\* strings.Contains for a piece of the line
Contains(line, piece) == \E i \in DOMAIN line : line[i] = piece

\* the loop over lines that builds cleanStack
RECURSIVE CleanStack(_)
CleanStack(lines) ==
    IF lines = <<>> THEN <<>>
    ELSE LET line == TrimSpace(Head(lines))
         IN IF /\ line # <<>>
               /\ ~Contains(line, "runtime/debug.Stack")
               /\ ~Contains(line, "github.com/sirupsen/logrus")
               /\ ~Contains(line, "aloig.(*CallerJSONFormatter).Format")
            THEN <<line>> \o CleanStack(Tail(lines))
            ELSE CleanStack(Tail(lines))

\* cleanStack of the stack Format sees; the stack is the same at every call
CleanedStack == CleanStack(RuntimeStack)

\* (*CallerJSONFormatter).Format: the fields it adds to entry.Data before
\* the JSON encoding; entry.Caller is <<>> (nil) or <<caller>>
CallerJSONFormat(entry) ==
    LET d0 == entry.Data
        d1 == IF entry.Caller # <<>>
              THEN LET c == entry.Caller[1]
                   IN MapMerge(d0,
                        [k \in {"caller", "function", "full_function", "file", "line"} |->
                            CASE k = "caller" ->
                                   StringVal(Base(c.File) \o <<":">> \o Itoa(c.Line))
                              [] k = "function" -> StringVal(getFunctionName(c.Function))
                              [] k = "full_function" -> StringVal(c.Function)
                              [] k = "file" -> StringVal(c.File)
                              [] k = "line" -> IntVal(c.Line)])
              ELSE d0
        cleanStack == CleanedStack
        d2 == IF entry.Level >= ErrorLevel /\ Len(cleanStack) > 0
              THEN MapPut(d1, "stack_trace", StringVal(Join(cleanStack, <<"\n">>)))
              ELSE d1
    IN d2

\* (*logrus.Logger).Log: a fresh entry without data, written when the level
\* is enabled, after the hooks have fired and the formatter has run
LogrusLog(insts, inst, level, msg) ==
    IF insts[inst].Level >= level
    THEN LET entry == [Level |-> level,
                       Data |-> FireHooks(insts[inst].Hooks, EmptyMap),
                       Caller |-> IF insts[inst].ReportCaller THEN <<Caller>> ELSE <<>>]
         IN <<[logger |-> inst, level |-> level, msg |-> msg,
               data |-> IF insts[inst].Formatter = "json"
                        THEN CallerJSONFormat(entry) ELSE entry.Data]>>
    ELSE <<>>

\* a fire that hands the entry to every Sentry hook, whatever its level
SentryFireAllLevels(insts, inst, level, msg) ==
    IF insts[inst].Level >= level
    THEN LET hooks == SelectSeq(insts[inst].Hooks, LAMBDA h : h.kind = "sentry")
         IN [i \in 1..Len(hooks) |-> [logger |-> inst, level |-> level, msg |-> msg]]
    ELSE <<>>

\* (logrus.LevelHooks).Fire for the entry Log writes: the events captured by
\* the Sentry hooks of the instance that are registered for the level
SentryFire(insts, inst, level, msg) ==
    IF insts[inst].Level >= level
    THEN LET hooks == SelectSeq(insts[inst].Hooks,
                                LAMBDA h : h.kind = "sentry" /\ level \in h.Levels)
         IN [i \in 1..Len(hooks) |-> [logger |-> inst, level |-> level, msg |-> msg]]
    ELSE <<>>

\* the hooks' clients queue what was captured
Captured(rep, events) == [rep EXCEPT !.events = @ \o events]

-----------------------------------------------------------------------------
(* The logrus-backed Logger *)

EnvDev == <<"d", "e", "v">>
EnvStaging == <<"s", "t", "a", "g", "i", "n", "g">>
EnvSandbox == <<"s", "a", "n", "d", "b", "o", "x">>
EnvProd == <<"p", "r", "o", "d">>

isSentryEnvironment(env) == env = EnvStaging \/ env = EnvSandbox \/ env = EnvProd

\* NewLogger up to the choice of formatter and hooks; sentry is what
\* initializeSentry and sentrylogrus.New answered: "ok", "init_error" or
\* "hook_error"
NewLogger(insts, config, sentry) ==
    LET standardFields ==
            MapMerge([k \in {"env", "appname", "hostname", "servername", "release"} |->
                         CASE k = "env" -> StringVal(config.Environment)
                           [] k = "appname" -> StringVal(config.AppName)
                           [] k = "hostname" -> StringVal(config.HostName)
                           [] k = "servername" -> StringVal(config.ServerName)
                           [] k = "release" -> StringVal(config.Release)],
                     config.CustomFields)
        base == [Level |-> config.Level,
                 ReportCaller |-> config.ReportCaller,
                 Hooks |-> IF config.Environment # EnvDev
                           THEN <<[kind |-> "fields", Fields |-> standardFields]>>
                           ELSE <<>>,
                 Formatter |-> IF config.Environment # EnvDev THEN "json" ELSE "text"]
        wantSentry == isSentryEnvironment(config.Environment) /\ config.SentryDSN # EmptyString
        inst == IF wantSentry /\ sentry = "ok"
                THEN [base EXCEPT !.Hooks =
                         Append(@, [kind |-> "sentry",
                                    Levels |-> {ErrorLevel, FatalLevel, PanicLevel}])]
                ELSE base
        id == Len(insts) + 1
        hooked == FireHooks(inst.Hooks, EmptyMap)
        records ==
            IF ~wantSentry THEN <<>>
            ELSE IF sentry = "ok"
                 THEN IF inst.Level >= InfoLevel
                      THEN <<[logger |-> id, level |-> InfoLevel,
                              msg |-> "Sentry initialized successfully",
                              data |-> hooked]>>
                      ELSE <<>>
                 ELSE IF inst.Level >= ErrorLevel
                      THEN <<[logger |-> id, level |-> ErrorLevel,
                              msg |-> IF sentry = "init_error"
                                      THEN "Error initializing Sentry"
                                      ELSE "Error creating Sentry hook",
                              data |-> FireHooks(inst.Hooks,
                                          MapPut(EmptyMap, ErrorKey, ErrorVal(sentry)))]>>
                      ELSE <<>>
    IN [instances |-> Append(insts, inst),
        logger |-> [logger |-> id, ctx |-> NilCtx],
        records |-> records,
        client |-> wantSentry /\ sentry # "init_error",
        hooked |-> wantSentry /\ sentry = "ok"]

\* what NewLogger leaves behind outside the logger: sentry.Init binds a client
\* to the current hub; logrus.RegisterExitHandler appends the flush of the
\* new hook to logrus' handlers
Registered(rep, n) ==
    [rep EXCEPT !.client = @ \/ n.client,
                !.handlers = IF n.hooked THEN Append(@, n.logger.logger) ELSE @]

\* the leveled methods of logrusLogger and the logrus level each logs at
MethodLevel(method) ==
    CASE method \in {"Debug", "Debugf"} -> DebugLevel
      [] method \in {"Info", "Infof", "Print", "Printf", "Println"} -> InfoLevel
      [] method \in {"Warn", "Warnf", "Warning", "Warningf"} -> WarnLevel
      [] method \in {"Error", "Errorf"} -> ErrorLevel
      [] method \in {"Fatal", "Fatalf"} -> FatalLevel
      [] method \in {"Panic", "Panicf"} -> PanicLevel
      [] method \in {"Trace", "Tracef"} -> TraceLevel

\* a Panic that raises the fault without writing the record
LoggerLogPanicOnly(insts, l, method, msg) ==
    [records |-> IF MethodLevel(method) = PanicLevel THEN <<>>
                 ELSE LogrusLog(insts, l.logger, MethodLevel(method), msg),
     fault |-> IF MethodLevel(method) = PanicLevel THEN <<msg>> ELSE <<>>,
     exit |-> IF MethodLevel(method) = FatalLevel THEN <<1>> ELSE <<>>,
     events |-> SentryFire(insts, l.logger, MethodLevel(method), msg)]

\* a Fatal that returns to its caller after writing the record
LoggerLogFatalReturns(insts, l, method, msg) ==
    [records |-> LogrusLog(insts, l.logger, MethodLevel(method), msg),
     fault |-> IF MethodLevel(method) = PanicLevel THEN <<msg>> ELSE <<>>,
     exit |-> <<>>,
     events |-> SentryFire(insts, l.logger, MethodLevel(method), msg)]

\* l.logger.<Method>(args...): the record; for Panic the fault logrus raises
\* after writing it (<<>>: none); for Fatal the status logrus exits with
\* after the call to Log (<<>>: no exit); the events its hooks captured
LoggerLog(insts, l, method, msg) ==
    [records |-> LogrusLog(insts, l.logger, MethodLevel(method), msg),
     fault |-> IF MethodLevel(method) = PanicLevel THEN <<msg>> ELSE <<>>,
     exit |-> IF MethodLevel(method) = FatalLevel THEN <<1>> ELSE <<>>,
     events |-> SentryFire(insts, l.logger, MethodLevel(method), msg)]

\* the message of a fault, as the caller's recover() sees it
PanicOf(fault) == IF fault = <<>> THEN NoPanic ELSE fault[1]

\* a WithField that makes the field stick by hooking it into the shared
\* logrus instance
WithFieldHooksInstance(insts, l, key, value) ==
    [instances |->
        [insts EXCEPT ![l.logger].Hooks =
            Append(@, [kind |-> "fields", Fields |-> MapPut(EmptyMap, key, value)])],
     logger |-> [logger |-> l.logger, ctx |-> l.ctx]]

\* WithField keeps only the Logger of the entry logrus returns
WithField(insts, l, key, value) ==
    [instances |-> insts,
     logger |-> [logger |-> LogrusWithField(l.logger, key, value).Logger,
                 ctx |-> l.ctx]]

WithFields(insts, l, fields) ==
    LET logrusFields == MapMerge(EmptyMap, fields)
    IN [instances |-> insts,
        logger |-> [logger |-> LogrusWithFields(l.logger, logrusFields).Logger,
                    ctx |-> l.ctx]]

WithError(insts, l, err) ==
    [instances |-> insts,
     logger |-> [logger |-> LogrusWithError(l.logger, err).Logger, ctx |-> l.ctx]]

\* a WithContext that hooks the identifiers of the handle into the logrus
\* instance
WithContextHooksHandle(insts, l, ctx) ==
    [instances |->
        IF ctx = NilCtx THEN insts
        ELSE [insts EXCEPT ![l.logger].Hooks =
                 Append(@, [kind |-> "fields",
                            Fields |-> ExtractContextFields(ctxs, ctx)])],
     logger |-> [logger |-> l.logger, ctx |-> ctx]]

WithContext(insts, l, ctx) ==
    [instances |-> insts, logger |-> [logger |-> l.logger, ctx |-> ctx]]

\* a withContextFields that stamps every identifier the handle binds, empty
\* ones included, on the shared logrus instance
withContextFieldsStamp(insts, heap, l, ctx) ==
    IF ctx = NilCtx THEN [instances |-> insts, logger |-> l]
    ELSE [instances |->
             [insts EXCEPT ![l.logger].Hooks =
                 Append(@, [kind |-> "fields",
                            Fields |-> ExtractContextFieldsKeepEmpty(heap, ctx)])],
          logger |-> l]

withContextFields(insts, heap, l, ctx) ==
    IF ctx = NilCtx THEN [instances |-> insts, logger |-> l]
    ELSE LET fields == ExtractContextFields(heap, ctx)
         IN IF Cardinality(DOMAIN fields) = 0
            THEN [instances |-> insts, logger |-> l]
            ELSE WithFields(insts, l, fields)

\* l.withContextFields(ctx).<Method>(args...)
LoggerLogContext(insts, heap, l, ctx, method, msg) ==
    LET w == withContextFields(insts, heap, l, ctx)
        r == LoggerLog(w.instances, w.logger, method, msg)
    IN [instances |-> w.instances, records |-> r.records, fault |-> r.fault,
        exit |-> r.exit, events |-> r.events]

-----------------------------------------------------------------------------
(* Calls on loggers *)

AppName == <<"a", "p", "p">>

\* the configurations loggers are built from
Configs ==
    {[Environment |-> EnvDev, AppName |-> AppName, SentryDSN |-> EmptyString,
      Release |-> AppName \o <<"@">> \o <<"1">>,
      Level |-> TraceLevel, ReportCaller |-> TRUE, CustomFields |-> EmptyMap,
      HostName |-> <<"h">>, ServerName |-> AppName],
     [Environment |-> EnvProd, AppName |-> AppName, SentryDSN |-> EmptyString,
      Release |-> AppName \o <<"@">> \o <<"1">>,
      Level |-> InfoLevel, ReportCaller |-> TRUE,
      CustomFields |-> MapPut(EmptyMap, "module", StringVal(<<"e", "x">>)),
      HostName |-> <<"h">>, ServerName |-> AppName]}

Methods == {"Debug", "Info", "Errorf", "Panic"}

Messages == {"msg"}

\* arguments of WithField / WithFields / WithError
FieldKeys == {"key"}
FieldValues == {StringVal(<<"v">>)}
FieldMaps ==
    {[k \in {"key1", "key2"} |-> StringVal(<<"v">>)]}
Errors == {NilVal, ErrorVal("test error")}

LoggerIds == 1..Len(loggers)

\* no call is in progress: the caller has taken the last result
Idle == ret = NoCall

\* a new *logrusLogger; the history records the call that made it
Allocate(from, op, added, l) ==
    /\ loggers' = Append(loggers, l)
    /\ derived' = Append(derived, [from |-> from, op |-> op, added |-> added,
                                   ctx |-> l.ctx])

CallWithField ==
    \E i \in LoggerIds, key \in FieldKeys, value \in FieldValues :
        LET r == WithField(instances, loggers[i], key, value)
        IN /\ Idle
           /\ Len(loggers) < MaxLoggers
           /\ instances' = r.instances
           /\ Allocate(i, "WithField", MapPut(EmptyMap, key, value), r.logger)
           /\ emitted' = <<>>
           /\ ret' = [op |-> "WithField", l |-> i, out |-> Len(loggers) + 1,
                      panic |-> NoPanic]
           /\ UNCHANGED <<ctxs, pkgVars, reporting>>

CallWithFields ==
    \E i \in LoggerIds, fields \in FieldMaps :
        LET r == WithFields(instances, loggers[i], fields)
        IN /\ Idle
           /\ Len(loggers) < MaxLoggers
           /\ instances' = r.instances
           /\ Allocate(i, "WithFields", fields, r.logger)
           /\ emitted' = <<>>
           /\ ret' = [op |-> "WithFields", l |-> i, out |-> Len(loggers) + 1,
                      panic |-> NoPanic]
           /\ UNCHANGED <<ctxs, pkgVars, reporting>>

CallWithError ==
    \E i \in LoggerIds, err \in Errors :
        LET r == WithError(instances, loggers[i], err)
        IN /\ Idle
           /\ Len(loggers) < MaxLoggers
           /\ instances' = r.instances
           /\ Allocate(i, "WithError", MapPut(EmptyMap, ErrorKey, err), r.logger)
           /\ emitted' = <<>>
           /\ ret' = [op |-> "WithError", l |-> i, out |-> Len(loggers) + 1,
                      panic |-> NoPanic]
           /\ UNCHANGED <<ctxs, pkgVars, reporting>>

CallWithContext ==
    \E i \in LoggerIds, h \in Handles :
        LET r == WithContext(instances, loggers[i], h)
        IN /\ Idle
           /\ Len(loggers) < MaxLoggers
           /\ instances' = r.instances
           /\ Allocate(i, "WithContext", EmptyMap, r.logger)
           /\ emitted' = <<>>
           /\ ret' = [op |-> "WithContext", l |-> i, out |-> Len(loggers) + 1,
                      panic |-> NoPanic]
           /\ UNCHANGED <<ctxs, pkgVars, reporting>>

CallLog ==
    \E i \in LoggerIds, method \in Methods, msg \in Messages :
        LET r == LoggerLog(instances, loggers[i], method, msg)
        IN /\ Idle
           /\ emitted' = r.records
           /\ ret' = [op |-> "Log", l |-> i, ctx |-> NilCtx, method |-> method,
                      msg |-> msg, panic |-> PanicOf(r.fault)]
           /\ reporting' = Captured(reporting, r.events)
           /\ UNCHANGED <<ctxs, instances, loggers, derived, pkgVars>>

CallLogContext ==
    \E i \in LoggerIds, h \in Handles, method \in Methods, msg \in Messages :
        LET r == LoggerLogContext(instances, ctxs, loggers[i], h, method, msg)
        IN /\ Idle
           /\ instances' = r.instances
           /\ emitted' = r.records
           /\ ret' = [op |-> "LogContext", l |-> i, ctx |-> h, method |-> method,
                      msg |-> msg, panic |-> PanicOf(r.fault)]
           /\ reporting' = Captured(reporting, r.events)
           /\ UNCHANGED <<ctxs, loggers, derived, pkgVars>>

\* the caller takes the result of the call and what was written, and clears
\* the captured output (buf.Reset())
Consume ==
    /\ ret # NoCall
    /\ ret' = NoCall
    /\ emitted' = <<>>
    /\ UNCHANGED <<ctxs, instances, loggers, derived, pkgVars, reporting>>

\* the handles of one request: 2 carries a generated trace id, 3 adds a
\* request id to it, 4 adds a session id bound to "" to 2
RequestScope(u1, u2) ==
    LET e == EnsureTraceID(<<BackgroundCtx>>, NilCtx, u1)
        r == WithRequestID(e.heap, e.ctx, GenerateTraceID(u2))
        s == WithSessionID(r.heap, e.ctx, EmptyString)  \* a sibling of 3
    IN s.heap

\* one logger built by NewLogger, and the handles of one request
Init ==
    \E config \in Configs, u1 \in UUIDs :
      \E u2 \in UUIDs \ {u1} :
        LET n == NewLogger(<<>>, config, "ok")
        IN /\ ctxs = RequestScope(u1, u2)
           /\ instances = n.instances
           /\ loggers = <<n.logger>>
           /\ derived = <<[from |-> 0, op |-> "NewLogger", added |-> EmptyMap,
                           ctx |-> NilCtx]>>
           /\ emitted = n.records
           /\ ret = [op |-> "NewLogger", out |-> 1, panic |-> NoPanic]
           /\ InitPkg

Next ==
    \/ CallWithField
    \/ CallWithFields
    \/ CallWithError
    \/ CallWithContext
    \/ CallLog
    \/ CallLogContext
    \/ Consume

Spec == Init /\ [][Next]_vars

\* the calls on the loggers WithContext derives, without the other With*
NextStored ==
    \/ CallWithContext
    \/ CallLog
    \/ CallLogContext
    \/ Consume

SpecStored == Init /\ [][NextStored]_vars

-----------------------------------------------------------------------------
(* The singleton: var ( log Logger; once sync.Once ), GetLogger,             *)
(* ConfigureLogger and the package-level functions, called from goroutines   *)

\* number of goroutines that call into the package
NumGoroutines == 2

\* number of calls the goroutines make in total
MaxCalls == 3

Goroutines == 1..NumGoroutines

\* the calls the first n goroutines have entered so far
RECURSIVE CallsMade(_)
CallsMade(n) == IF n = 0 THEN 0 ELSE goroutines[n].calls + CallsMade(n - 1)

\* os.Getenv: "" for a variable that is not set
Getenv(env, name) == IF name \in DOMAIN env THEN env[name] ELSE EmptyString

DefaultConfig(env) ==
    [Environment |-> Getenv(env, "ENVIRONMENT"),
     AppName |-> Getenv(env, "APP_NAME"),
     SentryDSN |-> Getenv(env, "SENTRY_DSN"),
     Release |-> Getenv(env, "APP_NAME") \o <<"@">> \o Getenv(env, "DEPLOY_ID"),
     HostName |-> Getenv(env, "HOSTNAME"),
     ServerName |-> Getenv(env, "APP_NAME"),
     Level |-> TraceLevel,
     ReportCaller |-> TRUE,
     CustomFields |-> EmptyMap]

\* the environments the process may be started in
Environs ==
    {EmptyMap,
     [k \in {"ENVIRONMENT", "APP_NAME"} |->
         IF k = "ENVIRONMENT" THEN EnvDev ELSE AppName],
     [k \in {"ENVIRONMENT", "APP_NAME", "DEPLOY_ID"} |->
         CASE k = "ENVIRONMENT" -> EnvProd
           [] k = "APP_NAME" -> AppName
           [] k = "DEPLOY_ID" -> <<"1">>]}

\* the exported functions that go through once.Do
SingletonOps == {"GetLogger", "ConfigureLogger", "Info"}

\* (*sync.Once).Do, fast path: if o.done.Load() == 0 { o.doSlow(f) }
OnceFastPath(o) == o.done

\* a once whose slow path runs f without looking at done again
OnceMustRunAlways(o) == TRUE

\* (*sync.Once).doSlow, under the mutex: if o.done.Load() == 0 { f() }
OnceMustRun(o) == ~o.done

\* a once that never records that f has run
OnceNeverDone(o) == o

\* (*sync.Once).doSlow: defer o.done.Store(1)
OnceMarkDone(o) == [o EXCEPT !.done = TRUE]

\* a singleton that is always built from the default configuration
SingletonConfigDefault(op, args, env) == DefaultConfig(env)

\* the configuration the function passed to once.Do builds the logger from
SingletonConfig(op, args, env) ==
    IF op = "ConfigureLogger" THEN args[1] ELSE DefaultConfig(env)

Step(g, pc) == goroutines' = [goroutines EXCEPT ![g].pc = pc]

\* a goroutine enters GetLogger(), ConfigureLogger(config) or Info(msg)
Call ==
    \E g \in Goroutines, op \in SingletonOps :
        \E args \in CASE op = "GetLogger" -> {<<>>}
                      [] op = "ConfigureLogger" -> {<<c>> : c \in Configs}
                      [] op = "Info" -> {<<m>> : m \in Messages} :
            /\ goroutines[g].pc = "idle"
            /\ CallsMade(NumGoroutines) < MaxCalls
            /\ goroutines' = [goroutines EXCEPT ![g].pc = "Do", ![g].op = op,
                                                ![g].args = args, ![g].calls = @ + 1]
            /\ UNCHANGED <<ctxs, logVars, ret, environ, log, once, proc, reporting>>

\* once.Do(f): the load of done outside the mutex
OnceDo ==
    \E g \in Goroutines :
        /\ goroutines[g].pc = "Do"
        /\ Step(g, IF OnceFastPath(once) THEN "after" ELSE "Lock")
        /\ UNCHANGED <<ctxs, logVars, ret, environ, log, once, proc, reporting>>

\* doSlow: o.m.Lock(), then the second look at done
OnceLock ==
    \E g \in Goroutines :
        /\ goroutines[g].pc = "Lock"
        /\ once.m = 0
        /\ once' = [once EXCEPT !.m = g]
        /\ Step(g, IF OnceMustRun(once) THEN "f" ELSE "Unlock")
        /\ UNCHANGED <<ctxs, logVars, ret, environ, log, proc, reporting>>

\* f(): log = NewLogger(config)
OnceRun ==
    \E g \in Goroutines :
        LET config == SingletonConfig(goroutines[g].op, goroutines[g].args, environ)
            n == NewLogger(instances, config, "ok")
        IN /\ goroutines[g].pc = "f"
           /\ instances' = n.instances
           /\ Allocate(0, "NewLogger", EmptyMap, n.logger)
           /\ emitted' = n.records
           /\ log' = Len(loggers) + 1
           /\ Step(g, "Store")
           /\ reporting' = Registered(reporting, n)
           /\ UNCHANGED <<ctxs, ret, environ, once, proc>>

\* the deferred o.done.Store(1)
OnceStore ==
    \E g \in Goroutines :
        /\ goroutines[g].pc = "Store"
        /\ once' = OnceMarkDone(once)
        /\ Step(g, "Unlock")
        /\ UNCHANGED <<ctxs, logVars, ret, environ, log, proc, reporting>>

\* the deferred o.m.Unlock()
OnceUnlock ==
    \E g \in Goroutines :
        /\ goroutines[g].pc = "Unlock"
        /\ once' = [once EXCEPT !.m = 0]
        /\ Step(g, "after")
        /\ UNCHANGED <<ctxs, logVars, ret, environ, log, proc, reporting>>

\* after once.Do: GetLogger returns log, Info logs through GetLogger(),
\* ConfigureLogger just returns; a method call on a nil Logger panics
Return ==
    \E g \in Goroutines :
        LET op == goroutines[g].op
            r == IF op = "Info" /\ log # NilLogger
                 THEN LoggerLog(instances, loggers[log], "Info", goroutines[g].args[1])
                 ELSE [records |-> <<>>,
                       fault |-> IF op = "Info" THEN <<"nil pointer dereference">>
                                 ELSE <<>>,
                       events |-> <<>>]
        IN /\ goroutines[g].pc = "after"
           /\ goroutines' =
                 [goroutines EXCEPT ![g].pc = "idle",
                                    ![g].got = IF op = "ConfigureLogger" THEN @
                                               ELSE @ \cup {log}]
           /\ emitted' = r.records
           /\ ret' = [op |-> op, g |-> g,
                      out |-> IF op = "GetLogger" THEN log ELSE NilLogger,
                      panic |-> PanicOf(r.fault)]
           /\ reporting' = Captured(reporting, r.events)
           /\ UNCHANGED <<ctxs, instances, loggers, derived, environ, log, once, proc>>

InitOnce ==
    \E env \in Environs :
        /\ ctxs = <<BackgroundCtx>>
        /\ instances = <<>>
        /\ loggers = <<>>
        /\ derived = <<>>
        /\ emitted = <<>>
        /\ ret = NoCall
        /\ environ = env
        /\ log = NilLogger
        /\ once = NewOnce
        /\ goroutines = [g \in Goroutines |->
                            [pc |-> "idle", op |-> "none", args |-> <<>>,
                             calls |-> 0, got |-> {}]]
        /\ proc = Running
        /\ reporting = NoReporting

NextOnce ==
    \/ Call
    \/ OnceDo
    \/ OnceLock
    \/ OnceRun
    \/ OnceStore
    \/ OnceUnlock
    \/ Return

SpecOnce == InitOnce /\ [][NextOnce]_vars

\* the logger the tests put in place of the singleton: logrus.New() at trace
\* level with a TextFormatter and no hook
TestLogger(insts) ==
    [instances |-> Append(insts, [Level |-> TraceLevel, ReportCaller |-> TRUE,
                                  Hooks |-> <<>>, Formatter |-> "text"]),
     logger |-> [logger |-> Len(insts) + 1, ctx |-> NilCtx]]

\* the singleton has been built by the function given to once.Do
Built == \E i \in DOMAIN derived : derived[i].op = "NewLogger"

\* log = testLogger, as a test of the package replaces the singleton, once,
\* between two calls
Replace ==
    LET t == TestLogger(instances)
    IN /\ \A g \in Goroutines : goroutines[g].pc = "idle"
       /\ \A i \in DOMAIN derived : derived[i].op # "Assign"
       /\ instances' = t.instances
       /\ Allocate(0, "Assign", EmptyMap, t.logger)
       /\ log' = Len(loggers) + 1
       /\ emitted' = <<>>
       /\ ret' = [op |-> "Assign", g |-> 0, out |-> Len(loggers) + 1,
                  built |-> Built, panic |-> NoPanic]
       /\ UNCHANGED <<ctxs, environ, once, goroutines, proc, reporting>>

NextReplace == NextOnce \/ Replace

SpecReplace == InitOnce /\ [][NextReplace]_vars

-----------------------------------------------------------------------------
(* The leveled methods of one logger, with what follows the call: the        *)
(* return, the panic and its recovery, or the exit of the process            *)

LeveledMethods ==
    {"Debug", "Debugf", "Info", "Infof", "Warn", "Warnf", "Warning", "Warningf",
     "Error", "Errorf", "Fatal", "Fatalf", "Panic", "Panicf",
     "Print", "Printf", "Println", "Trace", "Tracef"}

FormatMethods ==
    {"Debugf", "Infof", "Warnf", "Warningf", "Errorf", "Fatalf", "Panicf",
     "Printf", "Tracef"}

\* the message logrus builds from the arguments of the method
Message(method, format, args) ==
    IF method \in FormatMethods THEN Sprintf(format, args)
    ELSE IF method = "Println" THEN Sprintlnn(args)
         ELSE Sprint(args)

\* the arguments the methods are called with
CallInputs(method) ==
    IF method \in FormatMethods
    THEN {[format |-> <<"p", "%", "s">>, args |-> << <<"x">> >>],
          [format |-> <<"p">>, args |-> <<>>],
          [format |-> <<"%", "s", "%", "d">>, args |-> << <<"x">> >>]}
    ELSE {[format |-> <<>>, args |-> << <<"m">> >>],
          [format |-> <<>>, args |-> << <<"a">>, <<"b">> >>]}

\* the configurations of the logger: text and JSON output, every threshold
\* from panic to trace that the tests use, with and without caller reports
LeveledConfigs ==
    {[c EXCEPT !.Level = level, !.ReportCaller = rc] :
        c \in Configs, level \in {PanicLevel, InfoLevel, TraceLevel}, rc \in BOOLEAN}

\* the handles of the calls: 2 binds a session id to "" (its extraction is
\* empty), 3 adds a trace id to 2
LeveledScope ==
    LET s == WithSessionID(<<BackgroundCtx>>, Background, EmptyString)
        t == WithTraceID(s.heap, s.ctx, <<"a">>)
    IN t.heap

\* l.<Method>(args...) or l.<Method>f(format, args...), up to the return of
\* logrus' Log
CallLeveled ==
    \E method \in LeveledMethods :
        \E in \in CallInputs(method) :
            LET msg == Message(method, in.format, in.args)
                r == LoggerLog(instances, loggers[1], method, msg)
            IN /\ Idle
               /\ proc.status = "running"
               /\ emitted' = r.records
               /\ ret' = [op |-> "Log", l |-> 1, ctx |-> NilCtx, method |-> method,
                          format |-> in.format, args |-> in.args, msg |-> msg,
                          fault |-> r.fault, exit |-> r.exit]
               /\ reporting' = Captured(reporting, r.events)
               /\ UNCHANGED <<ctxs, instances, loggers, derived, pkgVars>>

\* l.<Method>Context(ctx, args...) or l.<Method>fContext(ctx, format, args...)
CallLeveledContext ==
    \E method \in LeveledMethods, h \in Handles :
        \E in \in CallInputs(method) :
            LET msg == Message(method, in.format, in.args)
                r == LoggerLogContext(instances, ctxs, loggers[1], h, method, msg)
            IN /\ Idle
               /\ proc.status = "running"
               /\ instances' = r.instances
               /\ emitted' = r.records
               /\ ret' = [op |-> "LogContext", l |-> 1, ctx |-> h, method |-> method,
                          format |-> in.format, args |-> in.args, msg |-> msg,
                          fault |-> r.fault, exit |-> r.exit]
               /\ reporting' = Captured(reporting, r.events)
               /\ UNCHANGED <<ctxs, loggers, derived, pkgVars>>

\* the call returns to its caller
ReturnLeveled ==
    /\ ret # NoCall
    /\ proc.status = "running"
    /\ ret.fault = <<>>
    /\ ret.exit = <<>>
    /\ ret' = NoCall
    /\ emitted' = <<>>
    /\ UNCHANGED <<ctxs, instances, loggers, derived, pkgVars, reporting>>

\* logrus: if level <= PanicLevel { panic(newEntry) }
RaisePanic ==
    /\ ret # NoCall
    /\ proc.status = "running"
    /\ ret.fault # <<>>
    /\ proc' = [status |-> "panicking", fault |-> ret.fault, code |-> 0]
    /\ UNCHANGED <<ctxs, logVars, ret, environ, log, once, goroutines, reporting>>

\* defer func() { if r := recover(); r != nil { ... } }() in a caller
Recover ==
    /\ proc.status = "panicking"
    /\ proc' = Running
    /\ ret' = [op |-> "recover", from |-> ret.op, method |-> ret.method,
               ctx |-> ret.ctx, out |-> proc.fault[1], fault |-> <<>>, exit |-> <<>>]
    /\ UNCHANGED <<ctxs, logVars, environ, log, once, goroutines, reporting>>

\* no caller recovers: the Go runtime prints the fault and exits with 2
Crash ==
    /\ proc.status = "panicking"
    /\ proc' = [status |-> "exited", fault |-> proc.fault, code |-> 2]
    /\ UNCHANGED <<ctxs, logVars, ret, environ, log, once, goroutines, reporting>>

\* logrus.runHandlers: every registered handler in turn, here the
\* sentryHook.Flush(2 * time.Second) NewLogger registered for each hook
RunHandlers(rep) ==
    [rep EXCEPT !.flushes =
        @ \o [i \in 1..Len(rep.handlers) |->
                 [by |-> "ExitHandler", after |-> Len(rep.events)]]]

\* logrus: logger.Exit(1) after Log, that is runHandlers() and os.Exit(1)
Exit ==
    /\ ret # NoCall
    /\ proc.status = "running"
    /\ ret.exit # <<>>
    /\ proc' = [status |-> "exited", fault |-> <<>>, code |-> ret.exit[1]]
    /\ reporting' = RunHandlers(reporting)
    /\ UNCHANGED <<ctxs, logVars, ret, environ, log, once, goroutines>>

InitLeveled ==
    \E config \in LeveledConfigs :
        LET n == NewLogger(<<>>, config, "ok")
        IN /\ ctxs = LeveledScope
           /\ instances = n.instances
           /\ loggers = <<n.logger>>
           /\ derived = <<[from |-> 0, op |-> "NewLogger", added |-> EmptyMap,
                           ctx |-> NilCtx]>>
           /\ emitted = n.records
           /\ ret = NoCall
           /\ InitPkg

NextLeveled ==
    \/ CallLeveled
    \/ CallLeveledContext
    \/ ReturnLeveled
    \/ RaisePanic
    \/ Recover
    \/ Crash
    \/ Exit

SpecLeveled == InitLeveled /\ [][NextLeveled]_vars

-----------------------------------------------------------------------------
(* GetLogLevelFromEnv *)

UpperCase == <<"A", "B", "C", "D", "E", "F", "G", "H", "I", "J", "K", "L", "M",
              "N", "O", "P", "Q", "R", "S", "T", "U", "V", "W", "X", "Y", "Z">>

LowerCase == <<"a", "b", "c", "d", "e", "f", "g", "h", "i", "j", "k", "l", "m",
              "n", "o", "p", "q", "r", "s", "t", "u", "v", "w", "x", "y", "z">>

\* strings.ToLower, for ASCII letters
ToLower(str) ==
    [i \in DOMAIN str |->
        IF \E n \in DOMAIN UpperCase : UpperCase[n] = str[i]
        THEN LowerCase[CHOOSE n \in DOMAIN UpperCase : UpperCase[n] = str[i]]
        ELSE str[i]]

\* what logrus.ParseLevel returns with a non-nil error
NotValidLevel == [level |-> PanicLevel, err |-> "not a valid logrus Level"]

\* logrus.ParseLevel: switch strings.ToLower(lvl)
ParseLevel(lvl) ==
    LET l == ToLower(lvl)
        ok(level) == [level |-> level, err |-> "nil"]
    IN CASE l = <<"p", "a", "n", "i", "c">> -> ok(PanicLevel)
         [] l = <<"f", "a", "t", "a", "l">> -> ok(FatalLevel)
         [] l = <<"e", "r", "r", "o", "r">> -> ok(ErrorLevel)
         [] l = <<"w", "a", "r", "n">> \/ l = <<"w", "a", "r", "n", "i", "n", "g">> -> ok(WarnLevel)
         [] l = <<"i", "n", "f", "o">> -> ok(InfoLevel)
         [] l = <<"d", "e", "b", "u", "g">> -> ok(DebugLevel)
         [] l = <<"t", "r", "a", "c", "e">> -> ok(TraceLevel)
         [] OTHER -> NotValidLevel

\* a GetLogLevelFromEnv that falls back to the default level when the value
\* of the variable is not a level
GetLogLevelFromEnvDefaultOnInvalid(env, envVar, defaultLevel) ==
    LET p == ParseLevel(Getenv(env, envVar))
        d == ParseLevel(defaultLevel)
    IN IF p.err = "nil" THEN p.level
       ELSE IF d.err = "nil" THEN d.level ELSE InfoLevel

GetLogLevelFromEnv(env, envVar, defaultLevel) ==
    LET levelStr == IF Getenv(env, envVar) = EmptyString
                    THEN defaultLevel ELSE Getenv(env, envVar)
        p == ParseLevel(levelStr)
    IN IF p.err # "nil" THEN InfoLevel ELSE p.level

\* the values LOG_LEVEL is set to and the default levels callers pass
LevelStrings ==
    {EmptyString, <<"p", "a", "n", "i", "c">>, <<"f", "a", "t", "a", "l">>, <<"e", "r", "r", "o", "r">>,
     <<"w", "a", "r", "n">>, <<"w", "a", "r", "n", "i", "n", "g">>, <<"i", "n", "f", "o">>, <<"d", "e", "b", "u", "g">>, <<"t", "r", "a", "c", "e">>,
     <<"I", "N", "F", "O">>, <<"W", "a", "r", "n">>, <<"i", "n", "v", "a", "l", "i", "d">>, <<"v", "e", "r", "b", "o", "s", "e">>}

LevelEnvVars == {"LOG_LEVEL"}

\* os.Setenv(envVar, value), or os.Unsetenv(envVar)
LevelEnvirons ==
    {EmptyMap} \cup {[k \in {envVar} |-> v] : envVar \in LevelEnvVars, v \in LevelStrings}

InitLevelEnv ==
    \E env \in LevelEnvirons, envVar \in LevelEnvVars, defaultLevel \in LevelStrings :
        /\ ctxs = <<BackgroundCtx>>
        /\ instances = <<>>
        /\ loggers = <<>>
        /\ derived = <<>>
        /\ emitted = <<>>
        /\ ret = [op |-> "args", envVar |-> envVar, defaultLevel |-> defaultLevel]
        /\ environ = env
        /\ log = NilLogger
        /\ once = NewOnce
        /\ goroutines = <<>>
        /\ proc = Running
        /\ reporting = NoReporting

\* result := GetLogLevelFromEnv(envVar, defaultLevel)
CallGetLogLevelFromEnv ==
    /\ ret.op = "args"
    /\ ret' = [op |-> "GetLogLevelFromEnv", envVar |-> ret.envVar,
               defaultLevel |-> ret.defaultLevel,
               out |-> GetLogLevelFromEnv(environ, ret.envVar, ret.defaultLevel),
               panic |-> NoPanic]
    /\ UNCHANGED <<ctxs, logVars, pkgVars, reporting>>

NextLevelEnv == CallGetLogLevelFromEnv

SpecLevelEnv == InitLevelEnv /\ [][NextLevelEnv]_vars

-----------------------------------------------------------------------------
(* Error reporting: NewLogger with a Sentry DSN, the leveled calls whose     *)
(* entries the Sentry hook captures, FlushSentry, and the ways the process   *)
(* ends                                                                      *)

MaxFlushes == 2
MaxEvents == 2

EnvDevelop == <<"d", "e", "v", "e", "l", "o", "p">>
EnvTest == <<"t", "e", "s", "t">>

\* the values of Config.Environment and of the ENVIRONMENT variable
EnvNames == {EmptyString, EnvDev, EnvStaging, EnvSandbox, EnvProd, EnvDevelop, EnvTest}

DSN == <<"h", "t", "t", "p", "s", ":", "/", "/", "k", "@", "s", "/", "1">>

\* explicit configurations, as the callers of NewLogger(Config{...}) write them
ReportedConfigs ==
    {[Environment |-> e,
      AppName |-> AppName,
      SentryDSN |-> dsn,
      Release |-> AppName \o <<"@">> \o <<"1">>,
      HostName |-> <<"h">>,
      ServerName |-> AppName,
      Level |-> level,
      ReportCaller |-> FALSE,
      CustomFields |-> cf] :
        e \in EnvNames, dsn \in {EmptyString, DSN}, level \in {FatalLevel, InfoLevel},
        cf \in {EmptyMap, [k \in {"module"} |-> StringVal(<<"e", "x">>)]}}

\* what sentry.Init and sentrylogrus.New may answer
SentryOutcomes == {"ok", "init_error", "hook_error"}

ReportedMethods == {"Info", "Warn", "Error", "Fatal", "Panic"}

\* a FlushSentry that asks the configuration of the logger instead of the
\* environment of the process
FlushSentryByConfig(rep, env) ==
    IF rep.handlers # <<>>
    THEN [rep EXCEPT !.flushes =
             Append(@, [by |-> "FlushSentry", after |-> Len(rep.events)])]
    ELSE rep

\* FlushSentry: sentry.Flush(2 * time.Second) on the current hub when
\* ENVIRONMENT names a Sentry environment
FlushSentry(rep, env) ==
    IF isSentryEnvironment(Getenv(env, "ENVIRONMENT"))
    THEN [rep EXCEPT !.flushes =
             Append(@, [by |-> "FlushSentry", after |-> Len(rep.events)])]
    ELSE rep

\* aloig.NewLogger(config), once in the process
CallNewLogger ==
    \E config \in ReportedConfigs, outcome \in SentryOutcomes :
        LET n == NewLogger(instances, config, outcome)
        IN /\ Idle
           /\ proc.status = "running"
           /\ loggers = <<>>
           /\ instances' = n.instances
           /\ loggers' = <<n.logger>>
           /\ derived' = <<[from |-> 0, op |-> "NewLogger", added |-> EmptyMap,
                            ctx |-> NilCtx, config |-> config, sentry |-> outcome]>>
           /\ emitted' = n.records
           /\ reporting' = Registered(reporting, n)
           /\ ret' = [op |-> "NewLogger", config |-> config, sentry |-> outcome,
                      fault |-> <<>>, exit |-> <<>>]
           /\ UNCHANGED <<ctxs, pkgVars>>

\* l.<Method>(args...) on the logger NewLogger returned
CallReported ==
    \E method \in ReportedMethods :
        LET msg == Message(method, <<>>, << <<"m">> >>)
            r == LoggerLog(instances, loggers[1], method, msg)
        IN /\ Idle
           /\ proc.status = "running"
           /\ loggers # <<>>
           /\ Len(reporting.events) < MaxEvents
           /\ emitted' = r.records
           /\ reporting' = Captured(reporting, r.events)
           /\ ret' = [op |-> "Log", l |-> 1, ctx |-> NilCtx, method |-> method,
                      format |-> <<>>, args |-> << <<"m">> >>, msg |-> msg,
                      fault |-> r.fault, exit |-> r.exit]
           /\ UNCHANGED <<ctxs, instances, loggers, derived, pkgVars>>

\* aloig.FlushSentry()
CallFlushSentry ==
    /\ Idle
    /\ proc.status = "running"
    /\ Len(reporting.flushes) < MaxFlushes
    /\ reporting' = FlushSentry(reporting, environ)
    /\ emitted' = <<>>
    /\ ret' = [op |-> "FlushSentry", env |-> Getenv(environ, "ENVIRONMENT"),
               before |-> reporting, fault |-> <<>>, exit |-> <<>>]
    /\ UNCHANGED <<ctxs, instances, loggers, derived, pkgVars>>

\* isSentryEnvironment(env), as the package's own tests call it
CallIsSentryEnvironment ==
    \E env \in EnvNames :
        /\ Idle
        /\ proc.status = "running"
        /\ emitted' = <<>>
        /\ ret' = [op |-> "isSentryEnvironment", env |-> env,
                   out |-> isSentryEnvironment(env), fault |-> <<>>, exit |-> <<>>]
        /\ UNCHANGED <<ctxs, instances, loggers, derived, pkgVars, reporting>>

\* os.Setenv("ENVIRONMENT", value), os.Unsetenv("ENVIRONMENT")
Setenv ==
    \E value \in EnvNames :
        /\ Idle
        /\ proc.status = "running"
        /\ environ' = IF value = EmptyString THEN EmptyMap
                      ELSE [k \in {"ENVIRONMENT"} |-> value]
        /\ environ' # environ
        /\ UNCHANGED <<ctxs, logVars, ret, log, once, goroutines, proc, reporting>>

\* main returns: the process ends with status 0; nothing of logrus runs
Terminate ==
    /\ Idle
    /\ proc.status = "running"
    /\ proc' = [status |-> "exited", fault |-> <<>>, code |-> 0]
    /\ UNCHANGED <<ctxs, logVars, ret, environ, log, once, goroutines, reporting>>

InitReported ==
    /\ ctxs = <<BackgroundCtx>>
    /\ instances = <<>>
    /\ loggers = <<>>
    /\ derived = <<>>
    /\ emitted = <<>>
    /\ ret = NoCall
    /\ InitPkg

NextReported ==
    \/ CallNewLogger
    \/ CallReported
    \/ CallFlushSentry
    \/ CallIsSentryEnvironment
    \/ Setenv
    \/ Terminate
    \/ ReturnLeveled
    \/ RaisePanic
    \/ Recover
    \/ Crash
    \/ Exit

SpecReported == InitReported /\ [][NextReported]_vars

-----------------------------------------------------------------------------
(* The example server: traceMiddleware in front of homeHandler *)

\* the values of the X-Trace-ID and X-User-ID headers; Header.Get returns ""
\* for a header the request does not carry
TraceHeaders == {EmptyString, <<"t">>, <<"a">>}
UserHeaders == {EmptyString, <<"u">>, <<"a">>}

\* r.Context() of an incoming request: context.Background() (handle 1, as
\* httptest builds it) or the context of http.Server (handle 2), which binds
\* keys of net/http only
ServerHeap ==
    <<BackgroundCtx,
      [kind |-> "value", parent |-> Background, key |-> "http-server",
       val |-> [type |-> "server"]]>>

RequestContexts == {1, 2}

\* a middleware that reuses the trace id as the request id
traceMiddlewareReusesTraceID(heap, rctx, traceHeader, userHeader, uuid1, uuid2) ==
    LET traceID == IF traceHeader = EmptyString THEN GenerateTraceID(uuid1)
                   ELSE traceHeader
        w1 == WithTraceID(heap, rctx, traceID)
        w2 == IF userHeader # EmptyString THEN WithUserID(w1.heap, w1.ctx, userHeader)
              ELSE w1
        w3 == WithRequestID(w2.heap, w2.ctx, traceID)
    IN [heap |-> w3.heap, ctx |-> w3.ctx,
        header |-> IF traceHeader = EmptyString THEN traceID ELSE EmptyString]

\* the handler traceMiddleware returns, up to next.ServeHTTP: the context it
\* hands on and the X-Trace-ID it sets on the response ("": not set); uuid1
\* and uuid2 are what uuid.New() yields for the trace id and the request id
traceMiddleware(heap, rctx, traceHeader, userHeader, uuid1, uuid2) ==
    LET traceID == IF traceHeader = EmptyString THEN GenerateTraceID(uuid1)
                   ELSE traceHeader
        w1 == WithTraceID(heap, rctx, traceID)
        w2 == IF userHeader # EmptyString THEN WithUserID(w1.heap, w1.ctx, userHeader)
              ELSE w1
        requestID == GenerateTraceID(uuid2)
        w3 == WithRequestID(w2.heap, w2.ctx, requestID)
    IN [heap |-> w3.heap, ctx |-> w3.ctx,
        header |-> IF traceHeader = EmptyString THEN traceID ELSE EmptyString]

\* a request arrives
Request ==
    \E rctx \in RequestContexts, t \in TraceHeaders, u \in UserHeaders :
        /\ Idle
        /\ ctxs' = ServerHeap
        /\ ret' = [op |-> "request", rctx |-> rctx, trace |-> t, user |-> u]
        /\ UNCHANGED <<logVars, pkgVars, reporting>>

\* the middleware runs and calls next.ServeHTTP(w, r.WithContext(ctx))
ServeMiddleware ==
    \E uuid1 \in UUIDs, uuid2 \in UUIDs :
        LET m == traceMiddleware(ctxs, ret.rctx, ret.trace, ret.user, uuid1, uuid2)
        IN /\ ret # NoCall
           /\ ret.op = "request"
           /\ ctxs' = m.heap
           /\ ret' = [op |-> "traceMiddleware", rctx |-> ret.rctx, trace |-> ret.trace,
                      user |-> ret.user, uuid1 |-> uuid1, uuid2 |-> uuid2,
                      ctx |-> m.ctx, header |-> m.header]
           /\ UNCHANGED <<logVars, pkgVars, reporting>>

\* homeHandler: ctx := r.Context(); the fields its InfoContext(ctx, ...)
\* calls attach
ServeHome ==
    /\ ret # NoCall
    /\ ret.op = "traceMiddleware"
    /\ ret' = [op |-> "homeHandler", rctx |-> ret.rctx, trace |-> ret.trace,
               user |-> ret.user, uuid1 |-> ret.uuid1, uuid2 |-> ret.uuid2,
               ctx |-> ret.ctx, header |-> ret.header,
               fields |-> ExtractContextFields(ctxs, ret.ctx)]
    /\ UNCHANGED <<ctxs, logVars, pkgVars, reporting>>

\* the response is written; the contexts of the request are garbage
Respond ==
    /\ ret # NoCall
    /\ ret.op = "homeHandler"
    /\ ret' = NoCall
    /\ ctxs' = ServerHeap
    /\ UNCHANGED <<logVars, pkgVars, reporting>>

InitServer ==
    /\ ctxs = ServerHeap
    /\ instances = <<>>
    /\ loggers = <<>>
    /\ derived = <<>>
    /\ emitted = <<>>
    /\ ret = NoCall
    /\ InitPkg

NextServer == Request \/ ServeMiddleware \/ ServeHome \/ Respond

SpecServer == InitServer /\ [][NextServer]_vars

-----------------------------------------------------------------------------
(* What a handle binds, stated on the chain itself rather than by lookup *)

\* the cells on the parent chain of a handle
RECURSIVE Chain(_, _)
Chain(heap, ctx) ==
    IF ctx = NilCtx THEN {}
    ELSE IF heap[ctx].kind = "background" THEN {ctx}
         ELSE {ctx} \cup Chain(heap, heap[ctx].parent)

BindingCells(heap, ctx, key) ==
    {i \in Chain(heap, ctx) : heap[i].kind = "value" /\ heap[i].key = key}

\* a child is always allocated after its parent, so the innermost binding
\* is the one in the youngest cell
Innermost(heap, ctx, key) ==
    CHOOSE i \in BindingCells(heap, ctx, key) :
        \A j \in BindingCells(heap, ctx, key) : j <= i

\* the string a handle binds to key: "" when absent, unbound or not a string
BoundString(heap, ctx, key) ==
    IF BindingCells(heap, ctx, key) = {} THEN EmptyString
    ELSE LET v == heap[Innermost(heap, ctx, key)].val
         IN IF v.type = "string" THEN v.s ELSE EmptyString

-----------------------------------------------------------------------------
(* Claims on the context store, checked under SpecCtx *)

\* C5: bind is total on an absent handle: With<Key>ID(H, v) raises no fault
\* for any base handle H, the nil handle included, and the returned handle
\* reads v back for that key.
C5_BindTotalOnAbsentHandle ==
    ret.op = "WithID" =>
        /\ ret.panic = NoPanic
        /\ ret.out # NilCtx
        /\ ReadID(ctxs, ret.out, ret.key) = ret.arg

\* C6: round trip on an existing handle: for each key, every non-nil handle
\* H and every string v, Get<K>ID(With<K>ID(H, v)) = v, whatever H bound
\* before.
C6_RoundTrip ==
    (ret.op = "WithID" /\ ret.ctx # NilCtx) =>
        /\ ret.panic = NoPanic
        /\ ReadID(ctxs, ret.out, ret.key) = ret.arg

C6_Witness ==
    /\ ret.op = "WithID"
    /\ ret.ctx # NilCtx
    /\ ret.arg # EmptyString
    /\ BoundString(ctxs, ret.ctx, ret.key) \notin {EmptyString, ret.arg}
    /\ ReadID(ctxs, ret.out, ret.key) = ret.arg

\* C7: read is total and degrades to empty: Get<K>ID returns "" without a
\* fault for the nil handle, for a key never bound on the chain and for a
\* key bound to ""; otherwise it returns the bound string.
C7_ReadTotal ==
    ret.op = "GetID" =>
        /\ ret.panic = NoPanic
        /\ ret.out = IF ret.ctx = NilCtx THEN EmptyString
                     ELSE BoundString(ctxs, ret.ctx, ret.key)

C7_Witness ==
    /\ ret.op = "GetID"
    /\ ret.ctx # NilCtx
    /\ BindingCells(ctxs, ret.ctx, ret.key) # {}
    /\ Cardinality(BindingCells(ctxs, ret.ctx, ret.key)) = 2
    /\ ret.out = EmptyString

\* C8: EnsureTraceID on a handle H that already carries a non-empty trace_id
\* t returns (H, t): the same handle, no new binding, no generated id, and
\* the result reads t.
C8_EnsureKeepsExisting ==
    (ret.op = "EnsureTraceID" /\ BoundString(ctxs, ret.ctx, TraceIDKey) # EmptyString) =>
        /\ ret.out = ret.ctx
        /\ ret.allocated = 0
        /\ ret.traceID = BoundString(ctxs, ret.ctx, TraceIDKey)
        /\ ReadID(ctxs, ret.out, TraceIDKey) = ret.traceID

C8_Witness ==
    /\ ret.op = "EnsureTraceID"
    /\ BoundString(ctxs, ret.ctx, TraceIDKey) # EmptyString
    /\ ret.out = ret.ctx
    /\ ret.traceID \notin {GenerateTraceID(u) : u \in UUIDs}

\* C9: EnsureTraceID on a handle that is nil, has no trace_id or has
\* trace_id bound to "" returns a non-nil handle H' and a non-empty generated
\* id g with read(H', trace_id) = g; EnsureTraceID(H') returns (H', g) again
\* and every other identifier of the input handle reads the same on H'.
C9_EnsureGenerates ==
    (ret.op = "EnsureTraceID" /\ BoundString(ctxs, ret.ctx, TraceIDKey) = EmptyString) =>
        /\ ret.out # NilCtx
        /\ ret.traceID # EmptyString
        /\ ret.traceID \in {GenerateTraceID(u) : u \in UUIDs}
        /\ ReadID(ctxs, ret.out, TraceIDKey) = ret.traceID
        /\ \A u \in UUIDs :
              EnsureTraceID(ctxs, ret.out, u) =
                  [heap |-> ctxs, ctx |-> ret.out, traceID |-> ret.traceID]
        /\ \A k \in ContextKeys \ {TraceIDKey} :
              ReadID(ctxs, ret.out, k) = BoundString(ctxs, ret.ctx, k)

C9_Witness ==
    /\ ret.op = "EnsureTraceID"
    /\ ret.ctx # NilCtx
    /\ BoundString(ctxs, ret.ctx, TraceIDKey) = EmptyString
    /\ \E k \in ContextKeys \ {TraceIDKey} :
          BoundString(ctxs, ret.ctx, k) # EmptyString
    /\ ret.allocated = 1
    /\ ReadID(ctxs, ret.out, TraceIDKey) = ret.traceID

\* C10: ExtractContextFields(handle) returns a mapping whose key set is
\* exactly the keys whose read is non-empty, each mapped to that value; a key
\* bound to "" is omitted, a nil or empty handle yields the empty mapping and
\* the size is between 0 and 4.
C10_ExtractExact ==
    ret.op = "ExtractContextFields" =>
        /\ DOMAIN ret.out =
              {k \in ContextKeys : BoundString(ctxs, ret.ctx, k) # EmptyString}
        /\ \A k \in DOMAIN ret.out : ret.out[k] = StringVal(BoundString(ctxs, ret.ctx, k))
        /\ Cardinality(DOMAIN ret.out) \in 0..4
        /\ (ret.ctx \in {NilCtx, Background} => Cardinality(DOMAIN ret.out) = 0)

C10_Witness ==
    /\ ret.op = "ExtractContextFields"
    /\ \E k \in ContextKeys :
          /\ BindingCells(ctxs, ret.ctx, k) # {}
          /\ BoundString(ctxs, ret.ctx, k) = EmptyString
    /\ Cardinality(DOMAIN ret.out) = 1

-----------------------------------------------------------------------------
(* Claims on chained binds, checked under SpecChain *)

\* C11: binding the four keys, each once and with fixed values, on a base
\* handle yields the same ExtractContextFields mapping in each of the 24
\* orders: the mapping of the order the test binds in.
C11_OrderIndependent ==
    ret.op = "ChainExtract" =>
        LET base == SubSeq(ctxs, 1, ret.base)
            t == BindAll(base, ret.base, TestOrder, ret.vals, 1)
        IN ret.out = ExtractContextFields(t.heap, t.ctx)

C11_Witness ==
    /\ ret.op = "ChainExtract"
    /\ ret.order[1] = SessionIDKey
    /\ ret.order[4] = TraceIDKey
    /\ ret.base # Background
    /\ Cardinality(DOMAIN ret.out) = 4

-----------------------------------------------------------------------------
(* Claims on the steps of the context store, checked under SpecCtx *)

\* C12: handles are immutable: no bind or EnsureTraceID call changes what a
\* handle created before it reads for any key (a step that leaves the heap
\* as it is cannot change a read); a handle derived from H by binding k to v
\* reads v for k while H still reads what it read before.
C12_HandlesImmutable ==
    [][/\ ctxs' # ctxs =>
             \A h \in Handles, k \in ContextKeys :
                 ReadID(ctxs', h, k) = ReadID(ctxs, h, k)
       /\ (ret'.op = "WithID" /\ ret'.panic = NoPanic) =>
             /\ ReadID(ctxs', ret'.out, ret'.key) = ret'.arg
             /\ ReadID(ctxs', ret'.ctx, ret'.key) = ReadID(ctxs, ret'.ctx, ret'.key)]_vars

C12_Witness ==
    /\ ret.op = "WithID"
    /\ ret.ctx # NilCtx
    /\ ret.arg # EmptyString
    /\ ReadID(ctxs, ret.ctx, ret.key) \notin {EmptyString, ret.arg}
    /\ ReadID(ctxs, ret.out, ret.key) = ret.arg
    /\ ctxs[ret.ctx].kind = "value"
    /\ ctxs[ret.ctx].key = ret.key

-----------------------------------------------------------------------------
(* What a derived logger is scoped to, read off the history of With* calls *)

\* the loggers on the derivation chain of i, i included
RECURSIVE PathTo(_)
PathTo(i) == IF derived[i].from = 0 THEN {i} ELSE {i} \cup PathTo(derived[i].from)

\* the fields WithField / WithFields scoped logger i to
RECURSIVE ScopedFields(_)
ScopedFields(i) ==
    IF derived[i].from = 0 THEN EmptyMap
    ELSE MapMerge(ScopedFields(derived[i].from),
                  IF derived[i].op \in {"WithField", "WithFields"}
                  THEN derived[i].added ELSE EmptyMap)

\* the error WithError scoped logger i to: <<err>>, or <<>> if none
RECURSIVE ScopedError(_)
ScopedError(i) ==
    IF derived[i].from = 0 THEN <<>>
    ELSE IF derived[i].op = "WithError" THEN <<derived[i].added[ErrorKey]>>
         ELSE ScopedError(derived[i].from)

\* what the call that created logger j added: fields, an error, or the
\* identifiers of a context
AddedBy(j) ==
    IF derived[j].op = "WithContext"
    THEN ExtractContextFields(ctxs, derived[j].ctx)
    ELSE derived[j].added

Descendants(l) == {d \in LoggerIds : d # l /\ l \in PathTo(d)}

AddedBelow(l) ==
    UNION {DOMAIN AddedBy(j) : j \in UNION {PathTo(d) \ PathTo(l) : d \in Descendants(l)}}

\* the values key k may carry in a record of logger l logged with handle
\* ctx, from what l itself is scoped to and from the handle of the call
OwnValues(l, ctx, k) ==
    {m[k] : m \in {x \in {ScopedFields(l),
                          ExtractContextFields(ctxs, loggers[l].ctx),
                          ExtractContextFields(ctxs, ctx)} : k \in DOMAIN x}}
    \cup {ScopedError(l)[n] : n \in {x \in DOMAIN ScopedError(l) : k = ErrorKey}}

IsLogCall == ret.op \in {"Log", "LogContext"}

Records == {emitted[n] : n \in DOMAIN emitted}

LevelEnabled == instances[loggers[ret.l].logger].Level >= MethodLevel(ret.method)

-----------------------------------------------------------------------------
(* Claims on the logger, checked under Spec *)

\* C1: a context-aware leveled operation called with a handle whose
\* extraction is non-empty emits a single record that carries every entry of
\* extract(handle) as a field and none of the correlation keys the handle
\* leaves unbound.
C1_ContextFieldsAttached ==
    (ret.op = "LogContext" /\ DOMAIN ExtractContextFields(ctxs, ret.ctx) # {}) =>
        /\ Len(emitted) = IF LevelEnabled THEN 1 ELSE 0
        /\ \A r \in Records :
              LET f == ExtractContextFields(ctxs, ret.ctx)
              IN /\ \A k \in DOMAIN f : k \in DOMAIN r.data /\ r.data[k] = f[k]
                 /\ \A k \in ContextKeys \ DOMAIN f : k \notin DOMAIN r.data

\* C2: every record emitted through a logger returned by WithField or
\* WithFields, also after further With* chaining, carries the fields the
\* logger was scoped to.
C2_ScopedFieldsCarried ==
    IsLogCall =>
        \A r \in Records :
            \A k \in DOMAIN ScopedFields(ret.l) :
                k \in DOMAIN r.data /\ r.data[k] = ScopedFields(ret.l)[k]

\* C3: WithError(err) raises no fault for any err, nil included, and every
\* record emitted through the logger it returns carries err as its error
\* field (stated here for the errors that are not nil).
C3_ErrorAttached ==
    /\ ret.op = "WithError" => ret.panic = NoPanic
    /\ (IsLogCall /\ ScopedError(ret.l) \notin {<<>>, <<NilVal>>}) =>
          \A r \in Records :
              ErrorKey \in DOMAIN r.data /\ r.data[ErrorKey] = ScopedError(ret.l)[1]

\* C4: WithField, WithFields, WithError and WithContext never mutate the
\* receiver: a record emitted through a logger L holds nothing that was added
\* to loggers derived from L, and the context L stores is the one it was
\* created with.
C4_ReceiverNotMutated ==
    /\ \A i \in LoggerIds : loggers[i].ctx = derived[i].ctx
    /\ IsLogCall =>
          \A r \in Records :
              \A k \in AddedBelow(ret.l) :
                  k \in DOMAIN r.data => r.data[k] \in OwnValues(ret.l, ret.ctx, k)

C4_Witness ==
    /\ IsLogCall
    /\ emitted # <<>>
    /\ \E d \in Descendants(ret.l) :
          /\ derived[d].op \in {"WithField", "WithFields", "WithError"}
          /\ \E c \in Descendants(d) :
                derived[c].op = "WithContext" /\ loggers[c].ctx # loggers[ret.l].ctx
    /\ \A k \in AddedBelow(ret.l) : \A r \in Records : k \notin DOMAIN r.data

-----------------------------------------------------------------------------
(* Claims on the singleton, checked under SpecOnce *)

\* g takes the step: every step of a goroutine moves it
Stepping(g) == goroutines'[g].pc # goroutines[g].pc

\* g returns from GetLogger, or from the GetLogger() of a package-level call
ReturnsLogger(g) ==
    /\ goroutines[g].pc = "after"
    /\ goroutines'[g].pc = "idle"
    /\ goroutines[g].op \in {"GetLogger", "Info"}

\* C13: GetLogger builds the process-wide logger lazily, on the first call,
\* and every later GetLogger call, after any sequence of GetLogger,
\* ConfigureLogger and package-level logging calls, returns that same non-nil
\* instance: the installed instance never changes once it is set.
C13_SingletonStable ==
    [][/\ log # NilLogger => log' = log
       /\ (log = NilLogger /\ log' # NilLogger) =>
             \E g \in Goroutines : goroutines[g].pc = "f"
       /\ \A g \in Goroutines :
             ReturnsLogger(g) =>
                 /\ log # NilLogger
                 /\ goroutines'[g].got = {log}
                 /\ goroutines[g].op = "GetLogger" => ret'.out = log
                 /\ ret'.panic = NoPanic]_vars

C13_Witness ==
    /\ ret.op = "GetLogger"
    /\ ret.out # NilLogger
    /\ goroutines[ret.g].calls = 2
    /\ goroutines[ret.g].got = {ret.out}
    /\ \E g \in Goroutines \ {ret.g} :
          goroutines[g].op = "ConfigureLogger" /\ goroutines[g].pc = "idle"

\* C14: under any interleaving of concurrent first calls to GetLogger and
\* ConfigureLogger, NewLogger runs exactly once in total, no GetLogger call
\* returns before the construction has completed (none sees a nil logger),
\* and all GetLogger calls return the same instance.
C14_OnceUnderConcurrency ==
    /\ Len(instances) <= 1
    /\ Len(loggers) <= 1
    /\ \A g \in Goroutines :
          (goroutines[g].pc \in {"after", "idle"} /\ goroutines[g].calls > 0) =>
              /\ Len(instances) = 1
              /\ log # NilLogger
    /\ \A g, h \in Goroutines :
          /\ NilLogger \notin goroutines[g].got
          /\ Cardinality(goroutines[g].got \cup goroutines[h].got) <= 1

C14_Witness ==
    /\ \E g, h \in Goroutines :
          /\ g # h
          /\ goroutines[g].pc = "Lock"
          /\ goroutines[g].calls = 1
          /\ goroutines[h].pc = "Store"
          /\ goroutines[h].calls = 1
    /\ Len(instances) = 1

\* C15: ConfigureLogger is first-writer-wins: when it is the first to run,
\* the singleton is built from the supplied configuration and a later
\* GetLogger returns that logger without building a default one; when the
\* singleton already exists, ConfigureLogger changes nothing and builds no
\* logger.
C15_FirstWriterWins ==
    [][\A g \in Goroutines :
          /\ (Stepping(g) /\ goroutines[g].op = "ConfigureLogger") =>
                IF log = NilLogger /\ goroutines[g].pc = "f"
                THEN /\ instances = <<>>
                     /\ instances' = NewLogger(<<>>, goroutines[g].args[1], "ok").instances
                     /\ log' = 1
                     /\ loggers' = <<[logger |-> 1, ctx |-> NilCtx]>>
                ELSE /\ log' = log
                     /\ instances' = instances
                     /\ loggers' = loggers
          /\ (ReturnsLogger(g) /\ log # NilLogger) =>
                /\ instances' = instances
                /\ loggers' = loggers
                /\ goroutines'[g].got = {log}]_vars

C15_Witness ==
    /\ ret.op = "ConfigureLogger"
    /\ goroutines[ret.g].op = "ConfigureLogger"
    /\ goroutines[ret.g].calls = 2
    /\ log = 1
    /\ \E c \in Configs :
          /\ instances = NewLogger(<<>>, c, "ok").instances
          /\ goroutines[ret.g].args = <<c>>
          /\ \A env \in Environs : instances # NewLogger(<<>>, DefaultConfig(env), "ok").instances
    /\ \E g \in Goroutines : goroutines[g].got = {1}

-----------------------------------------------------------------------------
(* Claims on GetLogLevelFromEnv, checked under SpecLevelEnv *)

\* the level each recognized name stands for, by the spelling of the name
LevelNames ==
    {<<<<"p", "a", "n", "i", "c">>, PanicLevel>>, <<<<"f", "a", "t", "a", "l">>, FatalLevel>>,
     <<<<"e", "r", "r", "o", "r">>, ErrorLevel>>, <<<<"w", "a", "r", "n">>, WarnLevel>>,
     <<<<"w", "a", "r", "n", "i", "n", "g">>, WarnLevel>>, <<<<"W", "a", "r", "n">>, WarnLevel>>,
     <<<<"i", "n", "f", "o">>, InfoLevel>>, <<<<"I", "N", "F", "O">>, InfoLevel>>,
     <<<<"d", "e", "b", "u", "g">>, DebugLevel>>, <<<<"t", "r", "a", "c", "e">>, TraceLevel>>}

\* the level a name is recognized as; info for a name that is not recognized
LevelOrInfo(name) ==
    IF \E p \in LevelNames : p[1] = name
    THEN (CHOOSE p \in LevelNames : p[1] = name)[2]
    ELSE InfoLevel

-----------------------------------------------------------------------------
(* Claims on the leveled methods, checked under SpecLeveled *)

\* a call of a leveled method that has come back from logrus' Log
IsLeveledCall(r) == r.op \in {"Log", "LogContext"}

IsPanicCall(r) == IsLeveledCall(r) /\ r.method \in {"Panic", "Panicf"}

IsFatalCall(r) == IsLeveledCall(r) /\ r.method \in {"Fatal", "Fatalf"}

\* the message the arguments of call r format to
FormattedMessage(r) == Message(r.method, r.format, r.args)

\* C16: Panic, Panicf, PanicContext and PanicfContext first emit exactly one
\* panic-level record containing the formatted message and only then raise a
\* fault that carries that formatted message; control never returns normally
\* from the call, and an enclosing recovery boundary can catch the fault and
\* continue.
C16_PanicAfterRecord ==
    [][/\ IsPanicCall(ret') =>
             /\ Len(emitted') = 1
             /\ emitted'[1].level = PanicLevel
             /\ emitted'[1].msg = FormattedMessage(ret')
       /\ (IsPanicCall(ret) /\ proc.status = "running") =>
             /\ proc'.status = "panicking"
             /\ proc'.fault = <<FormattedMessage(ret)>>
             /\ UNCHANGED <<ret, emitted>>
       /\ proc'.status = "panicking" => IsPanicCall(ret')
       /\ (proc.status = "panicking" /\ proc'.status = "running") =>
             /\ ret'.op = "recover"
             /\ ret'.out = FormattedMessage(ret)
             /\ emitted' = emitted]_vars

C16_Witness ==
    /\ ret.op = "recover"
    /\ ret.from = "LogContext"
    /\ ret.method = "Panicf"
    /\ ret.ctx = NilCtx
    /\ ret.out = <<"p", "x">>
    /\ proc.status = "running"
    /\ Len(emitted) = 1
    /\ emitted[1].msg = <<"p", "x">>
    /\ instances[1].Level = PanicLevel

\* what the fatal-level threshold of the logger lets through
FatalEnabled == instances[loggers[1].logger].Level >= FatalLevel

\* C17, as claimed: Fatal, Fatalf, FatalContext and FatalfContext emit the
\* fatal-level record and then terminate the process with a non-zero exit
\* status; the record is emitted before termination and no statement after
\* the call executes.
C17_FatalRecordThenExit ==
    [][/\ IsFatalCall(ret') =>
             /\ Len(emitted') = 1
             /\ emitted'[1].level = FatalLevel
             /\ emitted'[1].msg = FormattedMessage(ret')
       /\ (IsFatalCall(ret) /\ proc.status = "running") =>
             /\ proc'.status = "exited"
             /\ proc'.code # 0
             /\ UNCHANGED <<ret, emitted>>
       /\ proc.status # "exited"]_vars

\* C17, amended: Fatal, Fatalf, FatalContext and FatalfContext emit the
\* fatal-level record when the threshold of the logger enables the fatal
\* level (with the threshold at panic nothing is written) and in every case
\* then terminate the process with a non-zero exit status; what is written is
\* written before termination and no statement after the call executes.
C17_FatalExits ==
    [][/\ IsFatalCall(ret') =>
             /\ Len(emitted') = IF FatalEnabled' THEN 1 ELSE 0
             /\ \A n \in DOMAIN emitted' :
                   /\ emitted'[n].level = FatalLevel
                   /\ emitted'[n].msg = FormattedMessage(ret')
       /\ (IsFatalCall(ret) /\ proc.status = "running") =>
             /\ proc'.status = "exited"
             /\ proc'.code # 0
             /\ UNCHANGED <<ret, emitted>>
       /\ proc.status # "exited"]_vars

C17_Witness ==
    /\ IsFatalCall(ret)
    /\ ret.op = "LogContext"
    /\ ret.method = "Fatalf"
    /\ proc.status = "exited"
    /\ proc.code = 1
    /\ Len(emitted) = 1
    /\ emitted[1].level = FatalLevel
    /\ emitted[1].msg = <<"p", "x">>

\* the handle of call r is nil or binds no non-empty identifier
EmptyHandle(r) ==
    r.ctx = NilCtx \/ \A k \in ContextKeys : BoundString(ctxs, r.ctx, k) = EmptyString

\* what l.<Method>(args...) does for the method and message of call r
Plain(r) == LoggerLog(instances, loggers[r.l], r.method, r.msg)

\* C19, as claimed: a context-aware logging call whose handle is nil or
\* yields an empty extraction raises no fault and emits exactly one record at
\* the named level, identical in message and fields to what the corresponding
\* non-context operation on the same logger would emit.
C19_EmptyHandleOneRecord ==
    (ret.op = "LogContext" /\ EmptyHandle(ret)) =>
        /\ ret.fault = <<>>
        /\ Len(emitted) = 1
        /\ \A n \in DOMAIN emitted : emitted[n].level = MethodLevel(ret.method)
        /\ emitted = Plain(ret).records
        /\ \A n \in DOMAIN emitted : DOMAIN emitted[n].data \cap ContextKeys = {}

\* C19, amended: a context-aware logging call whose handle is nil or yields
\* an empty extraction does exactly what the corresponding non-context
\* operation on the same logger does: it emits the same records (one record
\* at the named level when the threshold of the logger enables that level,
\* none otherwise) with no correlation field added, and raises no fault
\* other than the one the non-context operation raises (the panic of Panic,
\* the exit of Fatal).
C19_EmptyHandleSameAsPlain ==
    (ret.op = "LogContext" /\ EmptyHandle(ret)) =>
        /\ ret.fault = Plain(ret).fault
        /\ ret.exit = Plain(ret).exit
        /\ Len(emitted) =
              IF instances[loggers[ret.l].logger].Level >= MethodLevel(ret.method)
              THEN 1 ELSE 0
        /\ \A n \in DOMAIN emitted : emitted[n].level = MethodLevel(ret.method)
        /\ emitted = Plain(ret).records
        /\ \A n \in DOMAIN emitted : DOMAIN emitted[n].data \cap ContextKeys = {}

C19_Witness ==
    /\ ret.op = "LogContext"
    /\ ret.ctx \notin {NilCtx, Background}
    /\ EmptyHandle(ret)
    /\ ret.method = "Println"
    /\ Len(emitted) = 1
    /\ emitted[1].msg = <<"a", " ", "b">>
    /\ instances[1].Formatter = "json"

\* C20: in the JSON (non-dev) format, a stack_trace field is added to a
\* record exactly when its level is error or more severe (error, fatal,
\* panic); records at warn, info, debug and trace level carry no stack_trace.
C20_StackTraceFromErrorUp ==
    \A n \in DOMAIN emitted :
        instances[emitted[n].logger].Formatter = "json" =>
            ("stack_trace" \in DOMAIN emitted[n].data
                <=> emitted[n].level \in {ErrorLevel, FatalLevel, PanicLevel})

-----------------------------------------------------------------------------
(* Claims on error reporting and on the formats, checked under SpecReported *)

\* the configuration NewLogger was called with
BuiltWith == derived[1].config

AutomaticFields(config) ==
    [k \in {"env", "appname", "hostname", "servername", "release"} |->
        CASE k = "env" -> StringVal(config.Environment)
          [] k = "appname" -> StringVal(config.AppName)
          [] k = "hostname" -> StringVal(config.HostName)
          [] k = "servername" -> StringVal(config.ServerName)
          [] k = "release" -> StringVal(config.Release)]

Carries(data, fields) == \A k \in DOMAIN fields : k \in DOMAIN data /\ data[k] = fields[k]

Wired ==
    /\ BuiltWith.Environment \in {EnvStaging, EnvSandbox, EnvProd}
    /\ BuiltWith.SentryDSN # EmptyString
    /\ derived[1].sentry = "ok"

HasSentryHook(inst) == \E i \in DOMAIN inst.Hooks : inst.Hooks[i].kind = "sentry"

\* the written records of level error, fatal or panic, as events
Forwarded(records) ==
    LET severe == SelectSeq(records,
                            LAMBDA r : r.level \in {ErrorLevel, FatalLevel, PanicLevel})
    IN [i \in 1..Len(severe) |->
           [logger |-> severe[i].logger, level |-> severe[i].level, msg |-> severe[i].msg]]

WiredOnly ==
    loggers # <<>> =>
        /\ HasSentryHook(instances[1]) <=> Wired
        /\ ~Wired => reporting.events = <<>>

ForwardsExactly ==
    (ret = NoCall /\ ret' # NoCall /\ ret'.op = "Log") =>
        reporting'.events =
            reporting.events \o (IF Wired THEN Forwarded(emitted') ELSE <<>>)

FlushedAll ==
    \E i \in DOMAIN reporting.flushes :
        reporting.flushes[i].after = Len(reporting.events)

\* C23: with the Sentry hook installed and events captured, however the
\* process ends (exit of a fatal call, return of main, unrecovered panic), a
\* flush has been called after the last captured event before the process
\* is gone
C23_FlushOnShutdown ==
    (/\ proc.status = "exited"
     /\ loggers # <<>>
     /\ HasSentryHook(instances[1])
     /\ reporting.events # <<>>) => FlushedAll

IsFlushSentryCall == ret # NoCall /\ ret.op = "FlushSentry"

C25_SentryEnvironments ==
    (ret # NoCall /\ ret.op = "isSentryEnvironment") =>
        /\ ret.env \in {EnvStaging, EnvSandbox, EnvProd, EnvDevelop} => ret.out
        /\ ret.env \in {EnvDev, EnvTest} => ~ret.out

-----------------------------------------------------------------------------
(* Claims on the example server, checked under SpecServer *)

InHandler == ret # NoCall /\ ret.op = "homeHandler"

\* C24: the handle traceMiddleware passes on extracts to exactly trace_id,
\* request_id and, when the request carries a user header, user_id; trace_id
\* is the trace header, or a generated non-empty id when there is none;
\* user_id is the user header; request_id is the non-empty id generated for
\* this request whatever the headers; there is no session_id
C24_MiddlewareFields ==
    InHandler =>
        LET r == GenerateTraceID(ret.uuid2)
            g == GenerateTraceID(ret.uuid1)
        IN /\ r # EmptyString
           /\ g # EmptyString
           /\ DOMAIN ret.fields =
                 {"trace_id", "request_id"}
                     \cup (IF ret.user # EmptyString THEN {"user_id"} ELSE {})
           /\ ret.fields["request_id"] = StringVal(r)
           /\ ret.fields["trace_id"] =
                 StringVal(IF ret.trace # EmptyString THEN ret.trace ELSE g)
           /\ ret.user # EmptyString => ret.fields["user_id"] = StringVal(ret.user)
           /\ ret.fields = ExtractContextFields(ctxs, ret.ctx)

C24_Witness ==
    /\ InHandler
    /\ ret.trace = <<"t">>
    /\ ret.user = <<"u">>
    /\ ret.fields = [k \in {"trace_id", "user_id", "request_id"} |->
                        CASE k = "trace_id" -> StringVal(<<"t">>)
                          [] k = "user_id" -> StringVal(<<"u">>)
                          [] k = "request_id" -> StringVal(Rep("7", 32))]

-----------------------------------------------------------------------------
(* Claims on the replaced singleton, checked under SpecReplace *)

\* the call that returns in this step is an Info, the first call to return
\* since the singleton variable was assigned
NextInfoReturns == ret.op = "Assign" /\ ret'.op = "Info"

\* the step writes one info record, on the logger that was assigned, with
\* the message of the call
DeliveredOnceToAssigned ==
    \E g \in Goroutines :
        /\ ret'.g = g
        /\ Len(emitted') = 1
        /\ emitted'[1].logger = loggers[ret.out].logger
        /\ emitted'[1].level = InfoLevel
        /\ emitted'[1].msg = goroutines[g].args[1]
        /\ ret'.panic = NoPanic

\* C26 as stated: whether or not the singleton has been initialized, the
\* Info that follows the assignment of the singleton variable is delivered
\* exactly once to the assigned logger and to no other
C26_ReplacementAnyState ==
    [][NextInfoReturns => DeliveredOnceToAssigned]_vars

\* C26 amended: when the singleton had been built before the assignment, the
\* Info that follows the assignment is delivered exactly once to the
\* assigned logger and to no other
C26_ReplacementAfterBuilt ==
    [][(NextInfoReturns /\ ret.built) => DeliveredOnceToAssigned]_vars

C26_Witness ==
    /\ ret.op = "Info"
    /\ Built
    /\ log # NilLogger
    /\ derived[log].op = "Assign"
    /\ Len(emitted) = 1
    /\ emitted[1].logger = loggers[log].logger
    /\ \E i \in DOMAIN derived : i < log /\ derived[i].op = "NewLogger"

-----------------------------------------------------------------------------
(* Claims on the frame of a bind, checked under SpecCtx *)

\* C27: binding one key leaves the others untouched: for every handle H, the
\* nil handle included, every key k and value v, With<k>ID(H, v) returns a
\* handle that reads for every other key what H reads for it
C27_BindFrame ==
    ret.op = "WithID" =>
        /\ ret.panic = NoPanic
        /\ \A k \in ContextKeys \ {ret.key} :
              ReadID(ctxs, ret.out, k) = ReadID(ctxs, ret.ctx, k)

-----------------------------------------------------------------------------
(* Claims on the handle a logger stores, checked under SpecStored *)

\* the records the call of ret writes when made on logger l
RecordsOn(l) ==
    IF ret.op = "Log" THEN LoggerLog(instances, l, ret.method, ret.msg).records
    ELSE LoggerLogContext(instances, ctxs, l, ret.ctx, ret.method, ret.msg).records

-----------------------------------------------------------------------------
(* Claims on values that are not strings, checked under SpecForeign *)

\* the innermost binding of key on the chain of ctx is not a string
ForeignBound(ctx, key) ==
    /\ ctx # NilCtx
    /\ BindingCells(ctxs, ctx, key) # {}
    /\ ctxs[Innermost(ctxs, ctx, key)].val.type # "string"

\* C30: when the innermost binding of an exported key on a handle is not a
\* string, Get<K>ID returns "" and ExtractContextFields leaves the key out,
\* without a fault, also when a string is bound to the key further in
C30_ForeignValuesTolerated ==
    /\ (ret.op = "GetID" /\ ForeignBound(ret.ctx, ret.key)) =>
          ret.out = EmptyString /\ ret.panic = NoPanic
    /\ ret.op = "ExtractContextFields" =>
          /\ ret.panic = NoPanic
          /\ \A key \in ContextKeys :
                ForeignBound(ret.ctx, key) => key \notin DOMAIN ret.out

C30_Witness ==
    /\ ret.op = "GetID"
    /\ ForeignBound(ret.ctx, ret.key)
    /\ ctxs[Innermost(ctxs, ret.ctx, ret.key)].val.type = "int"
    /\ \E i \in BindingCells(ctxs, ret.ctx, ret.key) :
          ctxs[i].val.type = "string" /\ ctxs[i].val.s # EmptyString
    /\ ret.out = EmptyString

====
